---- MODULE Spec2Model ----
(***************************************************************************)
(* Model of nest-initializer: the AppInitializer fluent builder, its       *)
(* static bootstrap entry point and the terminal listen() materialization, *)
(* together with the auto-discovery scanner used by withAutoDiscovery.     *)
(*                                                                         *)
(* JavaScript is single threaded: the code between two awaits runs         *)
(* atomically.  bootstrap/listen is one coroutine (its position is pc),    *)
(* the configurator callback is a second one (its status is cfg); an       *)
(* async configurator that suspends at an await is resumed only while      *)
(* listen itself is suspended at one of its awaits.                        *)
(*                                                                         *)
(* Optional fields (`x?: T`) are sequences of length 0 (undefined) or 1.   *)
(* Strings that the code inspects are sequences of characters.             *)
(***************************************************************************)
EXTENDS Naturals, Integers, Sequences, FiniteSets, TLC

\* ------------------------------------------------------------------------
\* Bounds of the model
\* ------------------------------------------------------------------------
\* chained builder calls made by one configurator
MaxCalls == 2

\* ------------------------------------------------------------------------
\* Program constants
\* ------------------------------------------------------------------------
\* parseInt(process.env.PORT || '3000', 10)
DefaultPort == 3000
\* process.exit(1)
ExitFailure == 1

None == <<>>
Some(v) == <<v>>
IsSet(o) == o # <<>>
Get(o) == o[1]

Last(s) == s[Len(s)]

\* ------------------------------------------------------------------------
\* Inputs
\* ------------------------------------------------------------------------
RootModule == "AppModule"
PortArgs == {8080, 9000}
PrefixArgs == {<<>>, <<"a">>, <<"/", "a">>}
VersioningArgs == {"URI", "HEADER"}
\* withCors(options = {}): the argument may be omitted
CorsArgs == {None, Some("originStar")}
EmptyCors == "{}"
\* SwaggerOptions; `path` is an optional key of the argument: hasPath says
\* whether the object has the key, path is its value (unset for undefined,
\* which a key that is present may hold as well)
SwaggerArgs ==
  { [title |-> "A", tags |-> <<>>, hasPath |-> FALSE, path |-> None,
     customOptions |-> None],
    [title |-> "A", tags |-> <<>>, hasPath |-> TRUE, path |-> None,
     customOptions |-> None],
    [title |-> "B", tags |-> <<"users">>, hasPath |-> TRUE, path |-> Some("apidocs"),
     customOptions |-> Some("customSiteTitle")] }
DevSwaggerArgs == { [title |-> "Dev", tags |-> <<>>, customOptions |-> None] }
CustomPlugins == {"P1", "P2"}
InterceptorArgs == {"I1"}
TypeOrmArgs == { [runMigrationsOnStartup |-> b] : b \in BOOLEAN }
BasePaths == {"srcA", "srcB"}
\* values user code (the configurator, a setup action, a plugin) can throw:
\* an Error object or any other value
Errors == { [isError |-> TRUE, message |-> "X", stack |-> "stack(X)"],
            [isError |-> FALSE, message |-> "raw", stack |-> ""] }
\* what the framework throws or rejects with
FrameworkErrors == { [isError |-> TRUE, message |-> "F", stack |-> "stack(F)"] }
\* the forms of the arguments of bootstrap
ArgForms == {"module_fn", "module_adapter_fn", "module_adapter"}
ConfiguratorKinds == {"sync", "async"}


\* ------------------------------------------------------------------------
\* Auto-discovery scanner (core/auto-discovery.helper.ts)
\* ------------------------------------------------------------------------
\* An export of a file: cls is the exported value, classLike says whether
\* `typeof v === 'function' && v.prototype`, path is what
\* reflector.get('path', v) answers (unset, or a string that may be empty),
\* injectable what reflector.get('__injectable__', v) answers, and raises
\* says whether reading the export throws.
Export(cls, classLike, path, injectable) ==
  [ cls |-> cls, classLike |-> classLike, path |-> path, injectable |-> injectable,
    raises |-> FALSE ]

RaisingExport(cls) ==
  [ cls |-> cls, classLike |-> TRUE, path |-> None, injectable |-> TRUE, raises |-> TRUE ]

\* A file the glob returned: loading it with requireFn either throws or
\* yields its exports in key order.
SourceFile(name, throws, exports) == [name |-> name, throws |-> throws, exports |-> exports]

\* globSync(join(basePath, '**/*.{ts,js}'), {ignore: ...}) for the directories
\* of the model; module, spec, node_modules, features and plugins files are
\* already left out by the glob.
GlobFiles(basePath) ==
  IF basePath = "srcA"
  THEN << SourceFile("user.ts", FALSE,
                     << Export("UserController", TRUE, Some("/users"), FALSE),
                        Export("UserService", TRUE, None, TRUE) >>) >>
  ELSE << SourceFile("broken.ts", TRUE, << Export("Broken", TRUE, Some("/broken"), TRUE) >>),
          SourceFile("mail.ts", FALSE,
                     << Export("MailService", TRUE, None, TRUE),
                        Export("helper", FALSE, None, FALSE),
                        Export("Plain", TRUE, None, FALSE) >>) >>

\* a metadata query made through the reflector
Query(key, cls) == [key |-> key, cls |-> cls]

\* if (reflectorInst.get('path', v)): the test of a string or undefined
Truthy(path) == IsSet(path) /\ Get(path) # ""

\* ClassifyExport with the injectable marker tested before the routing path
ClassifyExportMarkerFirst(acc, e) ==
  IF e.classLike
  THEN IF e.injectable
       THEN [acc EXCEPT !.providers = Append(@, e.cls),
                        !.queries = Append(@, Query("__injectable__", e.cls))]
       ELSE IF Truthy(e.path)
            THEN [acc EXCEPT !.controllers = Append(@, e.cls),
                             !.queries = @ \o << Query("__injectable__", e.cls),
                                                 Query("path", e.cls) >>]
            ELSE [acc EXCEPT !.queries = @ \o << Query("__injectable__", e.cls),
                                                 Query("path", e.cls) >>]
  ELSE acc

\* the body of `for (const key in exports)`: one export classified
ClassifyExport(acc, e) ==
  IF e.classLike
  THEN IF Truthy(e.path)
       THEN [acc EXCEPT !.controllers = Append(@, e.cls),
                        !.queries = Append(@, Query("path", e.cls))]
       ELSE IF e.injectable
            THEN [acc EXCEPT !.providers = Append(@, e.cls),
                             !.queries = @ \o << Query("path", e.cls),
                                                 Query("__injectable__", e.cls) >>]
            ELSE [acc EXCEPT !.queries = @ \o << Query("path", e.cls),
                                                 Query("__injectable__", e.cls) >>]
  ELSE acc

\* the loop over the exports with the try inside it: an export that throws
\* is passed over and the exports after it are still classified
RECURSIVE ScanExportsSkipsRaising(_, _)
ScanExportsSkipsRaising(acc, exports) ==
  IF exports = <<>> THEN acc
  ELSE IF Head(exports).raises THEN ScanExportsSkipsRaising(acc, Tail(exports))
       ELSE ScanExportsSkipsRaising(ClassifyExport(acc, Head(exports)), Tail(exports))

\* the loop over the exports of a file; an export that throws ends it, with
\* what was pushed before left in place
RECURSIVE ScanExports(_, _)
ScanExports(acc, exports) ==
  IF exports = <<>> THEN acc
  ELSE IF Head(exports).raises THEN acc
       ELSE ScanExports(ClassifyExport(acc, Head(exports)), Tail(exports))

\* ScanFile with the exports of a file read before it is known to load
ScanFileUnguarded(acc, file) == ScanExports(acc, file.exports)

\* the body of `for (const file of files)`: try { require; classify } catch {}
ScanFile(acc, file) ==
  IF file.throws THEN acc ELSE ScanExports(acc, file.exports)

RECURSIVE ScanFiles(_, _)
ScanFiles(acc, files) ==
  IF files = <<>> THEN acc
  ELSE ScanFiles(ScanFile(acc, Head(files)), Tail(files))

\* the scan of the files the glob returned, with the reflector queries made
Scan(files) == ScanFiles([providers |-> <<>>, controllers |-> <<>>, queries |-> <<>>], files)

\* return { providers, controllers }
discoverComponents(basePath) ==
  LET found == Scan(GlobFiles(basePath))
  IN  [providers |-> found.providers, controllers |-> found.controllers]

\* ------------------------------------------------------------------------
\* Starters and plugins (starters/*.ts, plugins/*.ts)
\* ------------------------------------------------------------------------
RequestLoggerPlugin == "RequestLoggerPlugin"
RateLimiterPlugin == "RateLimiterPlugin"
TypeOrmMigrationPlugin == "TypeOrmMigrationPlugin"
AllPlugins == CustomPlugins \cup {RequestLoggerPlugin, RateLimiterPlugin, TypeOrmMigrationPlugin}

\* createTypeOrmStarter with the test of runMigrationsOnStartup negated
createTypeOrmStarterInverted(options) ==
  [ module |-> "TypeOrmModule",
    plugins |-> IF options.runMigrationsOnStartup THEN <<>> ELSE <<TypeOrmMigrationPlugin>> ]

createTypeOrmStarter(options) ==
  [ module |-> "TypeOrmModule",
    plugins |-> IF options.runMigrationsOnStartup THEN <<TypeOrmMigrationPlugin>> ELSE <<>> ]

createMongooseStarter == [module |-> "MongooseModule", plugins |-> <<>>]

createCachingStarter == "CacheModule"

\* ------------------------------------------------------------------------
\* The builder: fields of an AppInitializer instance and its chained methods.
\* Every method is an operator from the instance to the instance after the
\* call; the value it returns is always `this`.
\* ------------------------------------------------------------------------
\* process.env.PORT is taken to be unset, so the port starts at the default
NewInitializer(module, adapter) ==
  [ module |-> module,
    adapter |-> adapter,
    app |-> None,
    port |-> DefaultPort,
    globalPrefix |-> None,
    versioningOptions |-> None,
    corsOptions |-> None,
    swaggerOptions |-> None,
    setupFunctions |-> <<>>,
    plugins |-> <<>>,
    featureModules |-> <<>>,
    advancedSwaggerUiOptions |-> None,
    autoDiscoveredComponents |-> None,
    globalProviders |-> <<>>,
    globalInterceptors |-> <<>>,
    factoryGeneratedControllers |-> <<>> ]

onPort(b, port) == [b EXCEPT !.port = port]

\* withPlugin with unshift in place of push
withPluginUnshift(b, plugin) == [b EXCEPT !.plugins = <<plugin>> \o @]

withPlugin(b, plugin) == [b EXCEPT !.plugins = Append(@, plugin)]

withVersioning(b, options) == [b EXCEPT !.versioningOptions = Some(options)]

\* NormalizePrefix without the startsWith test
NormalizePrefixAlways(prefix) == <<"/">> \o prefix

\* prefix.startsWith('/') ? prefix : `/${prefix}`
NormalizePrefix(prefix) ==
  IF Len(prefix) > 0 /\ prefix[1] = "/" THEN prefix ELSE <<"/">> \o prefix

withGlobalPrefix(b, prefix) == [b EXCEPT !.globalPrefix = Some(NormalizePrefix(prefix))]

\* options: CorsOptions = {}
withCors(b, options) ==
  [b EXCEPT !.corsOptions = Some(IF IsSet(options) THEN Get(options) ELSE EmptyCors)]

Provider(token, kind, value) == [provide |-> token, kind |-> kind, value |-> value]

withValidationPipe(b) ==
  [b EXCEPT !.globalProviders = Append(@, Provider("APP_PIPE", "useValue", "ValidationPipe"))]

useGlobalPipe(b, pipe) ==
  [b EXCEPT !.globalProviders = Append(@, Provider("APP_PIPE", "useClass", pipe))]

useGlobalFilter(b, filter) ==
  [b EXCEPT !.globalProviders = Append(@, Provider("APP_FILTER", "useClass", filter))]

useGlobalGuard(b, guard) ==
  [b EXCEPT !.globalProviders = Append(@, Provider("APP_GUARD", "useClass", guard))]

useGlobalInterceptor(b, interceptor) ==
  [b EXCEPT !.globalProviders = Append(@, Provider("APP_INTERCEPTOR", "useClass", interceptor))]

withClassSerializer(b) ==
  [b EXCEPT !.globalProviders =
      Append(@, Provider("APP_INTERCEPTOR", "useClass", "ClassSerializerInterceptor"))]

\* { path: 'docs', ...options }: the spread copies every key the argument
\* has, so a path key of the argument wins even when it holds undefined
withSwagger(b, options) ==
  [b EXCEPT !.swaggerOptions =
      Some([ title |-> options.title, tags |-> options.tags,
             customOptions |-> options.customOptions,
             path |-> IF options.hasPath THEN options.path ELSE Some("docs") ])]

withAdvancedSwaggerUI(b) ==
  [b EXCEPT !.advancedSwaggerUiOptions =
      Some([customCss |-> "swagger-dark-theme.css", customJs |-> "swagger-custom.js"])]

withGracefulShutdown(b) == [b EXCEPT !.setupFunctions = Append(@, "enableShutdownHooks")]

useHelmet(b) == [b EXCEPT !.setupFunctions = Append(@, "helmet")]

enableCompression(b) == [b EXCEPT !.setupFunctions = Append(@, "compression")]

\* the call that succeeded: ConfigModule.forRoot returned the module
withValidatedConfig(b) == [b EXCEPT !.featureModules = Append(@, "ConfigModule")]

RECURSIVE WithPlugins(_, _)
WithPlugins(b, ps) ==
  IF ps = <<>> THEN b ELSE WithPlugins(withPlugin(b, Head(ps)), Tail(ps))

\* withTypeOrm registering the migration plugin whatever the options say
withTypeOrmAlwaysMigrates(b, options) ==
  withPlugin([b EXCEPT !.featureModules = Append(@, createTypeOrmStarter(options).module)],
             TypeOrmMigrationPlugin)

withTypeOrm(b, options) ==
  LET starter == createTypeOrmStarter(options)
  IN  WithPlugins([b EXCEPT !.featureModules = Append(@, starter.module)], starter.plugins)

withMongoose(b) == [b EXCEPT !.featureModules = Append(@, createMongooseStarter.module)]

withCaching(b) == [b EXCEPT !.featureModules = Append(@, createCachingStarter)]

withHealthCheck(b) == [b EXCEPT !.featureModules = Append(@, "TerminusHealthCheckModule")]

withMetrics(b) == [b EXCEPT !.featureModules = Append(@, "MetricsModule")]

withAutoDiscovery(b, basePath) ==
  [b EXCEPT !.autoDiscoveredComponents = Some(discoverComponents(basePath))]

addGlobalInterceptor(b, interceptor) ==
  [b EXCEPT !.globalInterceptors = Append(@, interceptor)]

withResponseMapper(b) ==
  [b EXCEPT !.globalInterceptors = Append(@, "ResponsePatternInterceptor")]

\* this.withSwagger({ ...swaggerOptions, path: 'docs' }); this.withPlugin(...)
useDevelopmentDefaults(b, swaggerOptions) ==
  withPlugin(
    withSwagger(b, [title |-> swaggerOptions.title, tags |-> swaggerOptions.tags,
                    customOptions |-> swaggerOptions.customOptions,
                    hasPath |-> TRUE, path |-> Some("docs")]),
    RequestLoggerPlugin)

\* useProductionDefaults with the shutdown hooks registered first
useProductionDefaultsReordered(b) ==
  withPlugin(enableCompression(useHelmet(withGracefulShutdown(b))), RateLimiterPlugin)

useProductionDefaults(b) ==
  withPlugin(withGracefulShutdown(enableCompression(useHelmet(b))), RateLimiterPlugin)


\* ------------------------------------------------------------------------
\* State
\* ------------------------------------------------------------------------
VARIABLES
  pc,          \* position of the bootstrap / listen coroutine
  cfgKind,     \* "sync" or "async": how the configurator callback is declared;
               \* "unobserved" until the callback does something that shows it
  cfg,         \* the configurator: idle, running, returned, threw
  builder,     \* fields of the AppInitializer instance
  constructed, \* whether `new AppInitializer` has run
  idx,         \* position of the for..of loop that listen is in
  thrown,      \* the value on its way to the catch of bootstrap
  nCalls,      \* number of chained calls the configurator has made
  lastCall,    \* the chained call that has just been made (method, argument),
               \* "none" once the configurator has returned or thrown by itself
  lastReturn,  \* what the last chained call returned
  starterCalls,\* the feature / starter methods called, in call order
  listenAt,    \* Len(starterCalls) when listen() was called
  configured,  \* the concerns whose setter has been called
  calls,       \* calls into the framework and the plugins, in order
  logs,        \* Logger calls, in order
  exits,       \* process.exit calls, in order
  unhandled,   \* unhandledRejection events: rejected promises nothing awaited
  rejected,    \* rejected promises held in featureModules, not awaited so far
  snapshot,    \* the instance fields as they were when listen() was called
  nLate,       \* chained calls made while listen() is suspended at an await
  fn,          \* the function or method applied on its own, "none" before
  input,       \* what it was applied to
  output,      \* what it returned and what it did
  metrics,     \* one request going through MetricsInterceptor
  migration    \* one run of TypeOrmMigrationPlugin.apply

vars == << pc, cfgKind, cfg, builder, constructed, idx, thrown, nCalls, lastCall,
           lastReturn, starterCalls, listenAt, configured, calls, logs, exits,
           unhandled, rejected, snapshot, nLate, fn, input, output, metrics, migration >>

\* the parts of the state that belong to the units checked on their own
late == << snapshot, nLate >>
unit == << fn, input, output >>
parts == << metrics, migration >>

\* what the configurator's calls leave behind
history == << nCalls, lastCall, lastReturn, starterCalls, configured >>

Self == "this"
AppHandle == "app"

Call(op, arg) == [op |-> op, arg |-> arg]
Log(level, msg, detail, extra) ==
  [level |-> level, msg |-> msg, detail |-> detail, extra |-> extra]

Init ==
  /\ pc = "start"
  /\ cfgKind = "unobserved"
  /\ cfg = "idle"
  /\ builder = NewInitializer(RootModule, None)
  /\ constructed = FALSE
  /\ idx = 1
  /\ thrown = None
  /\ nCalls = 0
  /\ lastCall = [method |-> "none", arg |-> None]
  /\ lastReturn = None
  /\ starterCalls = <<>>
  /\ listenAt = 0
  /\ configured = {}
  /\ calls = <<>>
  /\ logs = <<>>
  /\ exits = <<>>
  /\ unhandled = 0
  /\ rejected = 0
  /\ snapshot = None
  /\ nLate = 0
  /\ fn = "none"
  /\ input = None
  /\ output = None
  /\ metrics = None
  /\ migration = None

\* ------------------------------------------------------------------------
\* bootstrap: argument resolution, construction, the configurator
\* ------------------------------------------------------------------------
\* const isExpress = typeof adapterOrConfigurator === 'function'; ...
ResolveArgs(form) ==
  [ adapter |-> IF form = "module_fn" THEN None ELSE Some("adapter"),
    hasConfigurator |-> form # "module_adapter" ]

\* bootstrap with the instance constructed and the start logged before the
\* configurator is looked for
BootstrapChecksLate ==
  /\ pc = "start"
  /\ \E form \in ArgForms :
       LET args == ResolveArgs(form) IN
       /\ builder' = NewInitializer(RootModule, args.adapter)
       /\ constructed' = TRUE
       /\ logs' = Append(logs, Log("log", "bootstrapStart", "", ""))
       /\ IF ~args.hasConfigurator
          THEN pc' = "typeError" /\ UNCHANGED cfg
          ELSE cfg' = "running" /\ pc' = "configuring"
  /\ UNCHANGED << cfgKind, idx, thrown, history, listenAt, calls, exits, unhandled, rejected >>
  /\ UNCHANGED << late, unit, parts >>

\* bootstrap up to and including the call of the configurator
Bootstrap ==
  /\ pc = "start"
  /\ \E form \in ArgForms :
       LET args == ResolveArgs(form) IN
       IF ~args.hasConfigurator
       THEN /\ pc' = "typeError"
            /\ UNCHANGED << cfg, builder, constructed, logs >>
       ELSE /\ builder' = NewInitializer(RootModule, args.adapter)
            /\ constructed' = TRUE
            /\ logs' = Append(logs, Log("log", "bootstrapStart", "", ""))
            /\ cfg' = "running"
            /\ pc' = "configuring"
  /\ UNCHANGED << cfgKind, idx, thrown, history, listenAt, calls, exits, unhandled, rejected >>
  /\ UNCHANGED << late, unit, parts >>

\* the methods that push a feature module, and the concern a setter configures
StarterMethods ==
  { "withValidatedConfig", "withTypeOrm", "withMongoose", "withCaching", "withHealthCheck",
    "withMetrics" }

ConcernOf(method) ==
  IF method = "withGlobalPrefix" THEN {"prefix"}
  ELSE IF method = "withCors" THEN {"cors"}
  ELSE IF method = "withVersioning" THEN {"versioning"}
  ELSE IF method \in {"withSwagger", "useDevelopmentDefaults"} THEN {"swagger"}
  ELSE {}

\* one chained call of the configurator that returns normally, pushing
\* `rejections` rejected promises onto featureModules
ChainedReturns(method, arg, after, rejections) ==
  /\ cfg = "running"
  /\ nCalls < MaxCalls
  /\ builder' = after
  /\ nCalls' = nCalls + 1
  /\ lastCall' = [method |-> method, arg |-> arg]
  /\ lastReturn' = Some(Self)
  /\ starterCalls' = IF method \in StarterMethods THEN Append(starterCalls, method)
                     ELSE starterCalls
  /\ configured' = configured \cup ConcernOf(method)
  /\ rejected' = rejected + rejections
  /\ UNCHANGED << pc, cfgKind, cfg, constructed, idx, thrown, listenAt, calls, logs,
                  exits, unhandled >>
  /\ UNCHANGED << late, unit, parts >>

Chained(method, arg, after) == ChainedReturns(method, arg, after, 0)

OnPort == \E port \in PortArgs : Chained("onPort", port, onPort(builder, port))
WithPlugin == \E p \in CustomPlugins : Chained("withPlugin", p, withPlugin(builder, p))
WithVersioning ==
  \E o \in VersioningArgs : Chained("withVersioning", o, withVersioning(builder, o))
WithGlobalPrefix ==
  \E s \in PrefixArgs : Chained("withGlobalPrefix", s, withGlobalPrefix(builder, s))
WithCors == \E o \in CorsArgs : Chained("withCors", o, withCors(builder, o))
WithValidationPipe == Chained("withValidationPipe", None, withValidationPipe(builder))
UseGlobalPipe == Chained("useGlobalPipe", "MockPipe", useGlobalPipe(builder, "MockPipe"))
UseGlobalFilter ==
  Chained("useGlobalFilter", "MockFilter", useGlobalFilter(builder, "MockFilter"))
UseGlobalGuard ==
  Chained("useGlobalGuard", "MockGuard", useGlobalGuard(builder, "MockGuard"))
UseGlobalInterceptor ==
  Chained("useGlobalInterceptor", "MockInterceptor",
          useGlobalInterceptor(builder, "MockInterceptor"))
WithClassSerializer == Chained("withClassSerializer", None, withClassSerializer(builder))
WithSwagger == \E o \in SwaggerArgs : Chained("withSwagger", o, withSwagger(builder, o))
WithAdvancedSwaggerUI ==
  Chained("withAdvancedSwaggerUI", None, withAdvancedSwaggerUI(builder))
WithGracefulShutdown ==
  Chained("withGracefulShutdown", None, withGracefulShutdown(builder))
UseHelmet == Chained("useHelmet", None, useHelmet(builder))
EnableCompression == Chained("enableCompression", None, enableCompression(builder))
WithTypeOrm == \E o \in TypeOrmArgs : Chained("withTypeOrm", o, withTypeOrm(builder, o))
WithMongoose == Chained("withMongoose", None, withMongoose(builder))
WithCaching == Chained("withCaching", None, withCaching(builder))
WithHealthCheck == Chained("withHealthCheck", None, withHealthCheck(builder))
WithMetrics == Chained("withMetrics", None, withMetrics(builder))
WithAutoDiscovery ==
  \E d \in BasePaths : Chained("withAutoDiscovery", d, withAutoDiscovery(builder, d))
AddGlobalInterceptor ==
  \E i \in InterceptorArgs :
     Chained("addGlobalInterceptor", i, addGlobalInterceptor(builder, i))
WithResponseMapper == Chained("withResponseMapper", None, withResponseMapper(builder))
UseDevelopmentDefaults ==
  \E o \in DevSwaggerArgs :
     Chained("useDevelopmentDefaults", o, useDevelopmentDefaults(builder, o))
UseProductionDefaults ==
  Chained("useProductionDefaults", None, useProductionDefaults(builder))
WithValidatedConfig == Chained("withValidatedConfig", None, withValidatedConfig(builder))

\* AfterConfiguratorCall with the configurator called outside the try block
AfterConfiguratorCallUnguarded(kind, outcome) == "listen"

\* Where control goes when the configurator stops running with `outcome`.
\* finalConfigurator(initializer) is called without await: a synchronous
\* throw lands in the catch of bootstrap, anything else (a normal return, a
\* promise that is pending or rejected) lets bootstrap go on to listen().
AfterConfiguratorCall(kind, outcome) ==
  IF kind = "sync" /\ outcome = "threw" THEN "catch" ELSE "listen"

\* The configurator stops running with `outcome`.  How it is declared shows
\* only when it throws: the throw of an async function rejects the promise
\* it returned, which nobody awaits.
ConfiguratorStops(kind, outcome, err) ==
  /\ cfg = "running"
  /\ pc = "configuring"
  /\ cfg' = outcome
  /\ cfgKind' = kind
  /\ pc' = AfterConfiguratorCall(kind, outcome)
  /\ thrown' = IF pc' = "catch" THEN Some(err) ELSE thrown
  /\ unhandled' = unhandled + (IF outcome = "threw" /\ kind = "async" THEN 1 ELSE 0)
                             + (IF pc' = "catch" THEN rejected ELSE 0)
  /\ rejected' = IF pc' = "catch" THEN 0 ELSE rejected
  /\ UNCHANGED << late, unit, parts >>

NoCall == [method |-> "none", arg |-> None]

ConfiguratorReturns ==
  /\ ConfiguratorStops(cfgKind, "returned", None)
  /\ lastCall' = NoCall
  /\ UNCHANGED << builder, constructed, idx, nCalls, lastReturn, starterCalls, configured,
                  listenAt, calls, logs, exits >>

ConfiguratorThrows ==
  /\ \E kind \in ConfiguratorKinds, err \in Errors : ConfiguratorStops(kind, "threw", err)
  /\ lastCall' = NoCall
  /\ UNCHANGED << builder, constructed, idx, nCalls, lastReturn, starterCalls, configured,
                  listenAt, calls, logs, exits >>

InvalidConfigError ==
  [isError |-> TRUE, message |-> "invalidConfig", stack |-> "stack(invalidConfig)"]

\* withValidatedConfig whose ConfigModule.forRoot answers a promise (what
\* @nestjs/config does from its version 4; the repository pins no version)
\* and runs validate inside it: the promise rejects with the Error of
\* validateConfig, it is pushed onto featureModules like any module, the
\* call returns the builder and the configurator goes on
ValidatedConfigRejects ==
  ChainedReturns("withValidatedConfig", "invalid", withValidatedConfig(builder), 1)

\* withValidatedConfig whose ConfigModule.forRoot runs validate before it
\* returns: validateConfig throws, nothing is pushed, the Error leaves the
\* configurator
ValidatedConfigFails ==
  /\ nCalls < MaxCalls
  /\ nCalls' = nCalls + 1
  /\ lastCall' = [method |-> "withValidatedConfig", arg |-> "invalid"]
  /\ \E kind \in ConfiguratorKinds : ConfiguratorStops(kind, "threw", InvalidConfigError)
  /\ UNCHANGED << builder, constructed, idx, lastReturn, starterCalls, configured,
                  listenAt, calls, logs, exits >>

\* ------------------------------------------------------------------------
\* listen: the terminal materialization
\* ------------------------------------------------------------------------
\* listen runs only while the configurator is not running
ListenRuns == cfg # "running"

DiscoveredProviders(b) ==
  IF IsSet(b.autoDiscoveredComponents) THEN Get(b.autoDiscoveredComponents).providers
  ELSE <<>>

DiscoveredControllers(b) ==
  IF IsSet(b.autoDiscoveredComponents) THEN Get(b.autoDiscoveredComponents).controllers
  ELSE <<>>

\* RootImports with the root module spread last
RootImportsFeaturesFirst(b) == b.featureModules \o <<b.module>>

RootImports(b) == <<b.module>> \o b.featureModules

\* AllProviders without the discovered injectables
AllProvidersGlobalOnly(b) == b.globalProviders

AllProviders(b) == DiscoveredProviders(b) \o b.globalProviders

AllControllers(b) == DiscoveredControllers(b) \o b.factoryGeneratedControllers

\* @Module({imports, controllers, providers}) class DynamicRootModule {}
DynamicRootModule(b) ==
  [ name |-> "DynamicRootModule",
    imports |-> RootImports(b),
    controllers |-> AllControllers(b),
    providers |-> AllProviders(b) ]

\* NestFactory.create(DynamicRootModule[, this.adapter])
CreateCall(b) == Call("create", [root |-> DynamicRootModule(b), adapter |-> b.adapter])

\* if (this.globalPrefix) this.app.setGlobalPrefix(this.globalPrefix)
PrefixCalls(b) ==
  IF IsSet(b.globalPrefix) /\ Len(Get(b.globalPrefix)) > 0
  THEN << Call("setGlobalPrefix", Get(b.globalPrefix)) >> ELSE <<>>

\* CorsCalls without the test of corsOptions
CorsCallsUnconditional(b) ==
  << Call("enableCors", IF IsSet(b.corsOptions) THEN Get(b.corsOptions) ELSE EmptyCors) >>

\* if (this.corsOptions) this.app.enableCors(this.corsOptions)
CorsCalls(b) ==
  IF IsSet(b.corsOptions) THEN << Call("enableCors", Get(b.corsOptions)) >> ELSE <<>>

\* if (this.versioningOptions) this.app.enableVersioning(this.versioningOptions)
VersioningCalls(b) ==
  IF IsSet(b.versioningOptions)
  THEN << Call("enableVersioning", Get(b.versioningOptions)) >> ELSE <<>>

\* this.swaggerOptions.path ?? 'docs'
SwaggerPath(o) == IF IsSet(o.path) THEN Get(o.path) ELSE "docs"

\* if (this.swaggerOptions) { build the document; SwaggerModule.setup(...) }
SwaggerCalls(b) ==
  IF IsSet(b.swaggerOptions)
  THEN LET o == Get(b.swaggerOptions) IN
       << Call("buildDocument", [title |-> o.title, tags |-> o.tags]),
          Call("createDocument", AppHandle),
          Call("swaggerSetup", [path |-> SwaggerPath(o), options |-> o.customOptions]) >>
  ELSE <<>>

\* the logs after a successful bind
UrlLogs(b) ==
  << Log("log", "running", "appUrl", "") >>
  \o (IF IsSet(b.swaggerOptions)
      THEN << Log("log", "swaggerAvailable", "appUrl", SwaggerPath(Get(b.swaggerOptions))) >>
      ELSE <<>>)

\* StepAfter with the interceptor loop placed before the plugin loop
StepAfterInterceptorsFirst(at) ==
  CASE at = "listen" -> "creating"
    [] at = "creating" -> "prefix"
    [] at = "prefix" -> "cors"
    [] at = "cors" -> "versioning"
    [] at = "versioning" -> "setup"
    [] at = "setup" -> "interceptors"
    [] at = "interceptors" -> "plugins"
    [] at = "plugins" -> "swagger"
    [] at = "swagger" -> "bind"
    [] at = "bind" -> "binding"
    [] at = "binding" -> "resolvingUrl"
    [] at = "resolvingUrl" -> "done"

\* The order of the statements of listen: the step that follows `at`.
StepAfter(at) ==
  CASE at = "listen" -> "creating"
    [] at = "creating" -> "prefix"
    [] at = "prefix" -> "cors"
    [] at = "cors" -> "versioning"
    [] at = "versioning" -> "setup"
    [] at = "setup" -> "plugins"
    [] at = "plugins" -> "interceptors"
    [] at = "interceptors" -> "swagger"
    [] at = "swagger" -> "bind"
    [] at = "bind" -> "binding"
    [] at = "binding" -> "resolvingUrl"
    [] at = "resolvingUrl" -> "done"

\* a step of listen that touches only pc, idx, calls, logs, builder
ListenAdvances(nextPc, nextIdx, newCalls, newLogs) ==
  /\ ListenRuns
  /\ pc' = nextPc
  /\ idx' = nextIdx
  /\ calls' = calls \o newCalls
  /\ logs' = logs \o newLogs
  /\ UNCHANGED << cfgKind, cfg, constructed, thrown, history, exits >>
  /\ UNCHANGED << nLate, unit, parts >>

\* a step of listen that settles no promise of featureModules
ListenStep(nextPc, nextIdx, newCalls, newLogs) ==
  /\ ListenAdvances(nextPc, nextIdx, newCalls, newLogs)
  /\ UNCHANGED << unhandled, rejected >>

\* a step of listen throws, or the promise it awaits rejects
ListenFails(err, newCalls) ==
  /\ ListenRuns
  /\ pc' = "catch"
  /\ thrown' = Some(err)
  /\ calls' = calls \o newCalls
  /\ UNCHANGED << cfgKind, cfg, builder, constructed, idx, history, listenAt, logs,
                  exits >>
  /\ UNCHANGED << late, unit, parts >>

\* a failure of listen that settles no promise of featureModules
ListenThrows(err, newCalls) ==
  /\ ListenFails(err, newCalls)
  /\ UNCHANGED << unhandled, rejected >>

\* await initializer.listen(), up to the await of NestFactory.create
ListenCreate ==
  /\ pc = "listen"
  /\ listenAt' = Len(starterCalls)
  /\ snapshot' = Some(builder)
  /\ ListenStep(StepAfter("listen"), idx, << CreateCall(builder) >>,
                << Log("log", "creatingInstance", "", "") >>)
  /\ UNCHANGED builder

\* this.app = await NestFactory.create(...): the factory answered without
\* awaiting the imports of the root module, so a rejected promise among them
\* has no handler and the runtime reports it
CreateResolves ==
  /\ pc = "creating"
  /\ builder' = [builder EXCEPT !.app = Some(AppHandle)]
  /\ ListenAdvances(StepAfter("creating"), idx, <<>>, <<>>)
  /\ unhandled' = unhandled + rejected
  /\ rejected' = 0
  /\ UNCHANGED << listenAt, snapshot >>

\* NestFactory.create rejects.  Either with an error of its own, before it
\* awaited any import of the root module: a rejected promise among them has
\* no handler.  Or because it awaits the imports and meets the rejected
\* promise of ConfigModule.forRoot: it rejects with what validateConfig
\* threw; the factory stops at the first rejection or awaits the imports
\* together, so the other rejected promises are left without a handler or
\* not.
CreateRejects ==
  \E err \in FrameworkErrors \cup (IF rejected > 0 THEN {InvalidConfigError} ELSE {}) :
    \E left \in (IF err = InvalidConfigError THEN {0, rejected - 1} ELSE {rejected}) :
      /\ pc = "creating"
      /\ ListenFails(err, <<>>)
      /\ unhandled' = unhandled + left
      /\ rejected' = 0

ApplyGlobalPrefix ==
  /\ pc = "prefix"
  /\ ListenStep(StepAfter("prefix"), idx, PrefixCalls(builder), <<>>)
  /\ UNCHANGED << builder, listenAt, snapshot >>

ApplyCors ==
  /\ pc = "cors"
  /\ ListenStep(StepAfter("cors"), idx, CorsCalls(builder), <<>>)
  /\ UNCHANGED << builder, listenAt, snapshot >>

ApplyVersioning ==
  /\ pc = "versioning"
  /\ ListenStep(StepAfter("versioning"), 1, VersioningCalls(builder), <<>>)
  /\ UNCHANGED << builder, listenAt, snapshot >>

\* for (const setup of this.setupFunctions) setup(this.app)
\* the setup actions taken last to first
SetupCallReversed(b, i) ==
  Call("setup", [fn |-> b.setupFunctions[Len(b.setupFunctions) + 1 - i], app |-> b.app])

\* setup(this.app), for the i-th entry of this.setupFunctions
SetupCall(b, i) == Call("setup", [fn |-> b.setupFunctions[i], app |-> b.app])

\* this.app.useGlobalInterceptors(interceptor), for the i-th entry
InterceptorCall(b, i) ==
  Call("useGlobalInterceptors", [interceptor |-> b.globalInterceptors[i], app |-> b.app])

RunSetupFunction ==
  /\ pc = "setup"
  /\ idx <= Len(builder.setupFunctions)
  /\ ListenStep("setup", idx + 1, << SetupCall(builder, idx) >>, <<>>)
  /\ UNCHANGED << builder, listenAt, snapshot >>

SetupFunctionThrows ==
  \E err \in Errors :
    /\ pc = "setup"
    /\ idx <= Len(builder.setupFunctions)
    /\ ListenThrows(err, << SetupCall(builder, idx) >>)

SetupFunctionsDone ==
  /\ pc = "setup"
  /\ idx > Len(builder.setupFunctions)
  /\ ListenStep(StepAfter("setup"), 1, <<>>, <<>>)
  /\ UNCHANGED << builder, listenAt, snapshot >>

\* MayStartPlugin without the await: the loop goes on while a plugin is pending
MayStartPluginUnawaited(at) == at \in {"plugins", "applying"}

\* Whether the loop may go on to the next plugin while pc is `at`:
\* `await plugin.apply(this.app)` holds the loop until the promise settles.
MayStartPlugin(at) == at = "plugins"

\* for (const plugin of this.plugins) { log; await plugin.apply(this.app) }
PluginApplyBegins ==
  /\ MayStartPlugin(pc)
  /\ idx <= Len(builder.plugins)
  /\ ListenStep("applying", idx,
                << Call("apply", [plugin |-> builder.plugins[idx], app |-> builder.app]) >>,
                << Log("log", "applyingPlugin", builder.plugins[idx], "") >>)
  /\ UNCHANGED << builder, listenAt, snapshot >>

PluginApplyResolves ==
  /\ pc = "applying"
  /\ ListenStep("plugins", idx + 1, << Call("applied", builder.plugins[idx]) >>, <<>>)
  /\ UNCHANGED << builder, listenAt, snapshot >>

\* PluginApplyRejects with the rejection swallowed: the loop goes on
PluginApplyRejectsSwallowed ==
  /\ pc = "applying"
  /\ ListenStep("plugins", idx + 1, << Call("applyFailed", builder.plugins[idx]) >>, <<>>)
  /\ UNCHANGED << builder, listenAt, snapshot >>

PluginApplyRejects ==
  \E err \in Errors :
    /\ pc = "applying"
    /\ ListenThrows(err, << Call("applyFailed", builder.plugins[idx]) >>)

PluginsDone ==
  /\ pc = "plugins"
  /\ idx > Len(builder.plugins)
  /\ ListenStep(StepAfter("plugins"), 1, <<>>, <<>>)
  /\ UNCHANGED << builder, listenAt, snapshot >>

\* for (const interceptor of this.globalInterceptors) app.useGlobalInterceptors(...)
InstallInterceptor ==
  /\ pc = "interceptors"
  /\ idx <= Len(builder.globalInterceptors)
  /\ ListenStep("interceptors", idx + 1, << InterceptorCall(builder, idx) >>, <<>>)
  /\ UNCHANGED << builder, listenAt, snapshot >>

InterceptorsDone ==
  /\ pc = "interceptors"
  /\ idx > Len(builder.globalInterceptors)
  /\ ListenStep(StepAfter("interceptors"), 1, <<>>, <<>>)
  /\ UNCHANGED << builder, listenAt, snapshot >>

SetupSwagger ==
  /\ pc = "swagger"
  /\ ListenStep(StepAfter("swagger"), idx, SwaggerCalls(builder), <<>>)
  /\ UNCHANGED << builder, listenAt, snapshot >>

\* documentBuilder.build(), SwaggerModule.createDocument or
\* SwaggerModule.setup throws: the calls made are those up to and including
\* the one that threw
SwaggerThrows ==
  \E err \in FrameworkErrors, n \in 1..3 :
    /\ pc = "swagger"
    /\ IsSet(builder.swaggerOptions)
    /\ ListenThrows(err, SubSeq(SwaggerCalls(builder), 1, n))

\* await this.app.listen(this.port)
BindBegins ==
  /\ pc = "bind"
  /\ ListenStep(StepAfter("bind"), idx, << Call("listen", builder.port) >>, <<>>)
  /\ UNCHANGED << builder, listenAt, snapshot >>

\* the listener is bound on the port app.listen was called with, the last
\* call made (a port set while the promise was pending is not read);
\* const appUrl = await this.app.getUrl()
BindResolves ==
  /\ pc = "binding"
  /\ ListenStep(StepAfter("binding"), idx,
                << Call("listening", Last(calls).arg), Call("getUrl", AppHandle) >>, <<>>)
  /\ UNCHANGED << builder, listenAt, snapshot >>

BindRejects == \E err \in FrameworkErrors : pc = "binding" /\ ListenThrows(err, <<>>)

UrlResolves ==
  /\ pc = "resolvingUrl"
  /\ ListenStep(StepAfter("resolvingUrl"), idx, <<>>, UrlLogs(builder))
  /\ UNCHANGED << builder, listenAt, snapshot >>

UrlRejects == \E err \in FrameworkErrors : pc = "resolvingUrl" /\ ListenThrows(err, <<>>)

\* ------------------------------------------------------------------------
\* bootstrap: the catch
\* ------------------------------------------------------------------------
\* error instanceof Error ? logger.error(message, stack) : logger.error(generic, error)
FailureLog(err) ==
  IF err.isError
  THEN Log("error", "bootstrapFailed", err.message, err.stack)
  ELSE Log("error", "bootstrapFailedNonStandard", "", err.message)

\* catch (error) { log; process.exit(1) }
BootstrapCatch ==
  /\ pc = "catch"
  /\ logs' = Append(logs, FailureLog(Get(thrown)))
  /\ exits' = Append(exits, ExitFailure)
  /\ pc' = "exited"
  /\ UNCHANGED << cfgKind, cfg, builder, constructed, idx, thrown, history, listenAt,
                  calls, unhandled, rejected >>
  /\ UNCHANGED << late, unit, parts >>

ChainedCall ==
  \/ OnPort \/ WithPlugin \/ WithVersioning \/ WithGlobalPrefix \/ WithCors
  \/ WithValidationPipe \/ UseGlobalPipe \/ UseGlobalFilter \/ UseGlobalGuard
  \/ UseGlobalInterceptor \/ WithClassSerializer \/ WithSwagger
  \/ WithAdvancedSwaggerUI \/ WithGracefulShutdown \/ UseHelmet \/ EnableCompression
  \/ WithValidatedConfig \/ WithTypeOrm \/ WithMongoose \/ WithCaching
  \/ WithHealthCheck \/ WithMetrics \/ WithAutoDiscovery \/ AddGlobalInterceptor
  \/ WithResponseMapper \/ UseDevelopmentDefaults \/ UseProductionDefaults

Configurator ==
  \/ ChainedCall
  \/ ValidatedConfigFails \/ ValidatedConfigRejects
  \/ ConfiguratorReturns \/ ConfiguratorThrows

Listen ==
  \/ ListenCreate \/ CreateResolves \/ CreateRejects
  \/ ApplyGlobalPrefix \/ ApplyCors \/ ApplyVersioning
  \/ RunSetupFunction \/ SetupFunctionThrows \/ SetupFunctionsDone
  \/ PluginApplyBegins \/ PluginApplyResolves \/ PluginApplyRejects \/ PluginsDone
  \/ InstallInterceptor \/ InterceptorsDone
  \/ SetupSwagger \/ SwaggerThrows
  \/ BindBegins \/ BindResolves \/ BindRejects
  \/ UrlResolves \/ UrlRejects

Next == Bootstrap \/ Configurator \/ Listen \/ BootstrapCatch

Spec == Init /\ [][Next]_vars


\* ------------------------------------------------------------------------
\* Properties
\* ------------------------------------------------------------------------
Indices(seq) == 1..Len(seq)
Count(op) == Cardinality({i \in Indices(calls) : calls[i].op = op})
Called(op) == \E i \in Indices(calls) : calls[i].op = op
Logged(msg) == \E i \in Indices(logs) : logs[i].msg = msg
PluginOps == {"apply", "applied", "applyFailed"}
SwaggerOps == {"buildDocument", "createDocument", "swaggerSetup"}

\* position of a framework call in the documented order of materialization
Rank(op) ==
  CASE op = "create" -> 1
    [] op = "setGlobalPrefix" -> 2
    [] op = "enableCors" -> 3
    [] op = "enableVersioning" -> 4
    [] op = "setup" -> 5
    [] op \in PluginOps -> 6
    [] op = "useGlobalInterceptors" -> 7
    [] op \in SwaggerOps -> 8
    [] op = "listen" -> 9
    [] op = "listening" -> 10
    [] op = "getUrl" -> 11

\* C1: the framework-facing steps of listen happen in the fixed order create,
\* prefix, CORS, versioning, setup actions, plugins, interceptors,
\* documentation, bind, and the URL logs come only after a successful bind;
\* a step never starts while the step before it is still pending.
C1_FixedOrder ==
  /\ \A i \in Indices(calls) : i < Len(calls) =>
        Rank(calls[i].op) <= Rank(calls[i + 1].op)
  /\ calls # <<>> => calls[1].op = "create" /\ Count("create") = 1
  /\ Len(calls) > 1 => IsSet(builder.app)
  /\ \A i \in Indices(calls) : i < Len(calls) =>
        /\ calls[i].op = "apply" =>
              /\ calls[i + 1].op \in {"applied", "applyFailed"}
              /\ calls[i + 1].arg = calls[i].arg.plugin
        /\ calls[i].op = "listen" => calls[i + 1].op = "listening"
  /\ Count("listen") <= 1
  /\ Called("listen") => calls[Len(calls)].op \in {"listen", "listening", "getUrl"}
  /\ Logged("running") => Called("listening") /\ Called("getUrl") /\ pc = "done"
  /\ Logged("swaggerAvailable") => Logged("running")
  /\ pc = "done" =>
        /\ Called("create") /\ Called("listen") /\ Called("listening")
        /\ Logged("running")
        /\ Count("setup") = Len(builder.setupFunctions)
        /\ Count("apply") = Len(builder.plugins)
        /\ Count("useGlobalInterceptors") = Len(builder.globalInterceptors)

\* a completed run in which a setup action, a plugin and an interceptor ran
C1_Witness ==
  /\ pc = "done"
  /\ Called("setup") /\ Called("applied") /\ Called("useGlobalInterceptors")
  /\ Logged("running")

\* the plugin events of the trace, in order
RECURSIVE PluginEvents(_)
PluginEvents(seq) ==
  IF seq = <<>> THEN <<>>
  ELSE IF Head(seq).op \in PluginOps THEN <<Head(seq)>> \o PluginEvents(Tail(seq))
       ELSE PluginEvents(Tail(seq))

\* C2: plugins are applied one at a time in registration order: the k-th
\* apply is that of the k-th registered plugin, it gets the application
\* handle, it begins only after the apply before it has resolved, and once
\* the loop is over every registered plugin has been applied exactly once.
C2_PluginsSequential ==
  LET ev == PluginEvents(calls) IN
  /\ \A k \in Indices(ev) :
        IF k % 2 = 1
        THEN /\ ev[k].op = "apply"
             /\ (k + 1) \div 2 <= Len(builder.plugins)
             /\ ev[k].arg.plugin = builder.plugins[(k + 1) \div 2]
             /\ ev[k].arg.app = Some(AppHandle)
             /\ k > 1 => ev[k - 1].op = "applied"
        ELSE /\ ev[k].op \in {"applied", "applyFailed"}
             /\ ev[k].arg = ev[k - 1].arg.plugin
  /\ pc \in {"interceptors", "swagger", "bind", "binding", "resolvingUrl", "done"} =>
        /\ Len(ev) = 2 * Len(builder.plugins)
        /\ \A k \in Indices(ev) : k % 2 = 0 => ev[k].op = "applied"

\* two different plugins have both been applied
C2_Witness ==
  /\ pc = "done"
  /\ Len(builder.plugins) = 2
  /\ builder.plugins[1] # builder.plugins[2]
  /\ Count("applied") = 2

\* C3: once the apply of a plugin has thrown or rejected, no later plugin is
\* applied, no interceptor is installed, the documentation is not set up,
\* the listener is not bound, and the failure is on its way to the handler of
\* bootstrap, which exits with status 1.
C3_PluginFailureAborts ==
  Called("applyFailed") =>
    /\ Count("applyFailed") = 1
    /\ calls[Len(calls)].op = "applyFailed"
    /\ ~Called("useGlobalInterceptors")
    /\ \A op \in SwaggerOps : ~Called(op)
    /\ ~Called("listen")
    /\ pc \in {"catch", "exited"}
    /\ IsSet(thrown)
    /\ pc = "exited" => exits = <<ExitFailure>> /\ Last(logs) = FailureLog(Get(thrown))

\* the first of two registered plugins failed and the process exited
C3_Witness ==
  /\ pc = "exited"
  /\ Called("applyFailed")
  /\ Len(builder.plugins) = 2
  /\ Count("apply") = 1

\* C4: when a configurator throws Error("X") the process exits with status 1
\* exactly once, an error log with the message and the stack of the error is
\* written, and listen is never invoked.
C4_ConfiguratorThrowHandled ==
  (cfg = "threw" /\ cfgKind = "sync") =>
    /\ calls = <<>>
    /\ ~Logged("creatingInstance")
    /\ pc \in {"catch", "exited"}
    /\ IsSet(thrown)
    /\ pc = "catch" => exits = <<>>
    /\ pc = "exited" =>
          /\ exits = <<ExitFailure>>
          /\ Last(logs) = FailureLog(Get(thrown))
          /\ Cardinality({i \in Indices(logs) : logs[i].level = "error"}) = 1
          /\ Get(thrown).isError =>
                /\ Last(logs).detail = Get(thrown).message
                /\ Last(logs).extra = Get(thrown).stack

\* a configurator threw Error("X") after a chained call, and the process exited
C4_Witness ==
  /\ cfg = "threw" /\ cfgKind = "sync"
  /\ pc = "exited"
  /\ nCalls = 1
  /\ Get(thrown).isError /\ Get(thrown).message = "X"

\* C5: when the validation registered with withValidatedConfig fails while
\* the configurator runs, the application is not started: the listener is
\* never bound and the run does not complete; when the failure is a throw
\* that ends the configurator, the error is on its way to the handler of
\* bootstrap or has been handled there, no rejection is left unhandled,
\* nothing of the materialization is invoked, and the process exits with
\* status 1.  This is stated for a configurator of either kind, sync or
\* async, and for a validation that fails before ConfigModule.forRoot
\* returns or inside the promise it returned.
C5_ValidationFailureStops ==
  LET lastFailed == lastCall.method = "withValidatedConfig" /\ lastCall.arg = "invalid"
  IN  /\ (lastFailed \/ rejected > 0) => ~Called("listen") /\ pc # "done"
      /\ (lastFailed /\ cfg = "threw") =>
            /\ pc \in {"catch", "exited"}
            /\ thrown = Some(InvalidConfigError)
            /\ calls = <<>>
            /\ ~Logged("creatingInstance")
            /\ unhandled = 0
            /\ pc = "exited" =>
                  exits = <<ExitFailure>> /\ Last(logs) = FailureLog(InvalidConfigError)

\* C6: every error raised while the configurator runs or during the
\* materialization is caught by bootstrap exactly once: it is on its way to
\* the handler or has been handled, with one error log (message and stack
\* for an Error, the generic message and the raw value otherwise), one exit
\* with status 1, and neither the configurator nor listen run again.
C6_EveryErrorCaughtOnce ==
  LET errorLogs == {i \in Indices(logs) : logs[i].level = "error"}
      raised == cfg = "threw" \/ IsSet(thrown)
  IN  /\ raised => pc \in {"catch", "exited"} /\ IsSet(thrown)
      /\ unhandled = 0
      /\ pc = "catch" => exits = <<>> /\ errorLogs = {}
      /\ pc = "exited" =>
            /\ raised
            /\ exits = <<ExitFailure>>
            /\ Cardinality(errorLogs) = 1
            /\ Last(logs) = FailureLog(Get(thrown))
            /\ Count("create") <= 1
            /\ Cardinality({i \in Indices(logs) : logs[i].msg = "bootstrapStart"}) = 1
      /\ pc # "exited" => exits = <<>>

\* the module each starter / feature call contributes, as documented
FeatureModuleOf(method) ==
  CASE method = "withValidatedConfig" -> "ConfigModule"
    [] method = "withTypeOrm" -> "TypeOrmModule"
    [] method = "withMongoose" -> "MongooseModule"
    [] method = "withCaching" -> "CacheModule"
    [] method = "withHealthCheck" -> "TerminusHealthCheckModule"
    [] method = "withMetrics" -> "MetricsModule"

\* the composition root handed to the application factory
CompositionRoot == calls[1].arg.root

\* C7: a run of the materialization makes exactly one application-factory
\* call, and the import list of its composition root is the root module
\* followed by one feature module per starter / feature call, in call order.
C7_SingleCompositionRoot ==
  /\ Count("create") <= 1
  /\ calls # <<>> =>
        /\ calls[1].op = "create"
        /\ Len(CompositionRoot.imports) = 1 + listenAt
        /\ CompositionRoot.imports[1] = RootModule
        /\ \A k \in 1..listenAt :
              CompositionRoot.imports[k + 1] = FeatureModuleOf(starterCalls[k])
        /\ listenAt = Len(starterCalls)
  /\ pc = "done" => Count("create") = 1

\* a completed run after two different starter calls
C7_Witness ==
  /\ pc = "done"
  /\ Len(starterCalls) = 2
  /\ starterCalls[1] # starterCalls[2]
  /\ Len(CompositionRoot.imports) = 3

\* C8: the provider list of the composition root is the discovered
\* injectables (none without auto-discovery) followed by the registered
\* global providers in registration order, its controller list is the
\* discovered handlers followed by the explicitly supplied controllers, and
\* nothing else is in either list.
C8_ProvidersAndControllers ==
  calls # <<>> =>
    LET found == IF IsSet(builder.autoDiscoveredComponents)
                 THEN Get(builder.autoDiscoveredComponents)
                 ELSE [providers |-> <<>>, controllers |-> <<>>]
        nFound == Len(found.providers)
        given == builder.globalProviders
        providers == CompositionRoot.providers
        controllers == CompositionRoot.controllers
    IN  /\ Len(providers) = nFound + Len(given)
        /\ SubSeq(providers, 1, nFound) = found.providers
        /\ SubSeq(providers, nFound + 1, Len(providers)) = given
        /\ Len(controllers) = Len(found.controllers) + Len(builder.factoryGeneratedControllers)
        /\ controllers = found.controllers \o builder.factoryGeneratedControllers

\* a completed run with a discovered injectable, a discovered handler and a
\* registered global provider
C8_Witness ==
  /\ pc = "done"
  /\ IsSet(builder.autoDiscoveredComponents)
  /\ Get(builder.autoDiscoveredComponents).providers # <<>>
  /\ builder.globalProviders # <<>>
  /\ Len(CompositionRoot.providers) = 2
  /\ Len(CompositionRoot.controllers) = 1

\* the calls of the trace with operation op
CallsOf(op) == {i \in Indices(calls) : calls[i].op = op}

\* C9: for route prefix, CORS, versioning and API documentation, a concern
\* whose chained call was never made gets no call into the framework (and no
\* docs-URL log); a concern that was configured gets, once the run is
\* complete, exactly one call, carrying the configured value.
C9_OnlyConfiguredConcerns ==
  /\ "prefix" \notin configured => ~Called("setGlobalPrefix")
  /\ "cors" \notin configured => ~Called("enableCors")
  /\ "versioning" \notin configured => ~Called("enableVersioning")
  /\ "swagger" \notin configured =>
        /\ \A op \in SwaggerOps : ~Called(op)
        /\ ~Logged("swaggerAvailable")
  /\ \A op \in {"setGlobalPrefix", "enableCors", "enableVersioning"} \cup SwaggerOps :
        Count(op) <= 1
  /\ \A i \in CallsOf("setGlobalPrefix") : calls[i].arg = Get(builder.globalPrefix)
  /\ \A i \in CallsOf("enableCors") : calls[i].arg = Get(builder.corsOptions)
  /\ \A i \in CallsOf("enableVersioning") : calls[i].arg = Get(builder.versioningOptions)
  /\ \A i \in CallsOf("buildDocument") :
        /\ calls[i].arg.title = Get(builder.swaggerOptions).title
        /\ calls[i].arg.tags = Get(builder.swaggerOptions).tags
  /\ \A i \in CallsOf("swaggerSetup") :
        /\ LET stored == Get(builder.swaggerOptions).path IN
           calls[i].arg.path = (IF IsSet(stored) THEN Get(stored) ELSE "docs")
        /\ calls[i].arg.options = Get(builder.swaggerOptions).customOptions
  /\ pc = "done" =>
        /\ "prefix" \in configured => Count("setGlobalPrefix") = 1
        /\ "cors" \in configured => Count("enableCors") = 1
        /\ "versioning" \in configured => Count("enableVersioning") = 1
        /\ "swagger" \in configured =>
              /\ \A op \in SwaggerOps : Count(op) = 1
              /\ Cardinality({i \in Indices(logs) : logs[i].msg = "swaggerAvailable"}) = 1

\* a completed run in which CORS was configured and nothing else was
C9_Witness ==
  /\ pc = "done"
  /\ configured = {"cors"}
  /\ Count("enableCors") = 1
  /\ ~Called("setGlobalPrefix")

ScalarFields == {"port", "globalPrefix", "versioningOptions", "corsOptions", "swaggerOptions"}
SequenceFields ==
  {"plugins", "setupFunctions", "globalProviders", "globalInterceptors", "featureModules"}

IsPrefixOf(s, t) == Len(s) <= Len(t) /\ SubSeq(t, 1, Len(s)) = s

\* the scalar field a method sets, and the sequence a method appends to
ScalarsOf(method) ==
  CASE method = "onPort" -> {"port"}
    [] method = "withGlobalPrefix" -> {"globalPrefix"}
    [] method = "withVersioning" -> {"versioningOptions"}
    [] method = "withCors" -> {"corsOptions"}
    [] method \in {"withSwagger", "useDevelopmentDefaults"} -> {"swaggerOptions"}
    [] OTHER -> {}

AppendsOf(method) ==
  CASE method = "withPlugin" -> {"plugins"}
    [] method \in {"withGracefulShutdown", "useHelmet", "enableCompression"} ->
         {"setupFunctions"}
    [] method \in {"withValidationPipe", "useGlobalPipe", "useGlobalFilter",
                   "useGlobalGuard", "useGlobalInterceptor", "withClassSerializer"} ->
         {"globalProviders"}
    [] method \in {"addGlobalInterceptor", "withResponseMapper"} -> {"globalInterceptors"}
    [] method \in StarterMethods -> {"featureModules"}
    [] OTHER -> {}

\* the presets and the starter that also register plugins or setup actions
CompositeMethods == {"useDevelopmentDefaults", "useProductionDefaults", "withTypeOrm"}

\* what one chained call that returned has done to the builder
ChainedCallEffect ==
  LET m == lastCall'.method
      a == lastCall'.arg
  IN  /\ lastReturn' = Some(Self)
      /\ \A f \in ScalarFields \ ScalarsOf(m) : builder'[f] = builder[f]
      /\ \A f \in SequenceFields : IsPrefixOf(builder[f], builder'[f])
      /\ \A f \in AppendsOf(m) : Len(builder'[f]) = Len(builder[f]) + 1
      /\ m \notin CompositeMethods =>
            \A f \in SequenceFields \ AppendsOf(m) : builder'[f] = builder[f]
      /\ m = "onPort" => builder'.port = a
      /\ m = "withVersioning" => builder'.versioningOptions = Some(a)
      /\ m = "withCors" =>
            builder'.corsOptions = (IF IsSet(a) THEN a ELSE Some(EmptyCors))
      /\ m = "withGlobalPrefix" => Get(builder'.globalPrefix) \in {a, <<"/">> \o a}
      /\ m = "withSwagger" =>
            /\ Get(builder'.swaggerOptions).title = a.title
            /\ Get(builder'.swaggerOptions).tags = a.tags
            /\ Get(builder'.swaggerOptions).path =
                  (IF a.hasPath THEN a.path ELSE Some("docs"))
      /\ m = "withPlugin" => Last(builder'.plugins) = a
      /\ m = "addGlobalInterceptor" => Last(builder'.globalInterceptors) = a

\* C10: every chained configuration method returns the builder it was called
\* on; a scalar setter leaves its own value in the state whatever was there
\* before, so after N calls only the last value remains; an appending method
\* keeps every earlier entry in place and adds its own at the end, so after
\* N calls the sequence holds the N entries in call order.
C10_ChainableLastWinsAppend ==
  [][(nCalls' = nCalls + 1 /\ cfg' = "running") => ChainedCallEffect]_vars

\* two withPlugin calls with different plugins: both are held, in call order
C10_Witness ==
  /\ cfg = "running"
  /\ nCalls = 2
  /\ lastCall.method = "withPlugin"
  /\ lastReturn = Some(Self)
  /\ builder.plugins = <<"P2", "P1">>

\* ------------------------------------------------------------------------
\* Chained methods applied on their own to an instance that a configurator
\* has already worked on: when, the presets, withGlobalPrefix
\* ------------------------------------------------------------------------
MaxSetupCalls == 2
MaxPrefixLen == 3

\* the state of bootstrap while the configurator runs, builder aside
WhileConfiguring ==
  /\ pc = "configuring"
  /\ cfgKind = "unobserved"
  /\ cfg = "running"
  /\ constructed = TRUE
  /\ idx = 1
  /\ thrown = None
  /\ nCalls = 0
  /\ lastCall = NoCall
  /\ lastReturn = None
  /\ starterCalls = <<>>
  /\ listenAt = 0
  /\ configured = {}
  /\ calls = <<>>
  /\ logs = << Log("log", "bootstrapStart", "", "") >>
  /\ exits = <<>>
  /\ unhandled = 0
  /\ rejected = 0

LateIdle == snapshot = None /\ nLate = 0
UnitIdle == fn = "none" /\ input = None /\ output = None
PartsIdle == metrics = None /\ migration = None

\* chained calls with fixed arguments, named by their method
SetupCalls ==
  {"onPort", "withPlugin", "withGracefulShutdown", "withSwagger", "withGlobalPrefix",
   "withCaching"}

ApplyCall(b, method) ==
  CASE method = "onPort" -> onPort(b, 8080)
    [] method = "withPlugin" -> withPlugin(b, "P1")
    [] method = "withGracefulShutdown" -> withGracefulShutdown(b)
    [] method = "withSwagger" -> withSwagger(b, [title |-> "A", tags |-> <<>>,
                                                  hasPath |-> FALSE, path |-> None,
                                                  customOptions |-> None])
    [] method = "withGlobalPrefix" -> withGlobalPrefix(b, <<"a">>)
    [] method = "withCaching" -> withCaching(b)
    [] method = "useHelmet" -> useHelmet(b)
    [] method = "enableCompression" -> enableCompression(b)

RECURSIVE ApplyCalls(_, _)
ApplyCalls(b, methods) ==
  IF methods = <<>> THEN b ELSE ApplyCalls(ApplyCall(b, Head(methods)), Tail(methods))

\* the instances reachable with at most n of these calls
RECURSIVE BuildersAfter(_)
BuildersAfter(n) ==
  IF n = 0 THEN { NewInitializer(RootModule, None) }
  ELSE LET before == BuildersAfter(n - 1)
       IN  before \cup { ApplyCall(b, m) : b \in before, m \in SetupCalls }

\* a statement of a callback body: a chained call on the builder received, or
\* a call of when on it with a callback of its own
CallItem(method) ==
  [kind |-> "call", method |-> method, condition |-> FALSE, body |-> <<>>]
WhenItem(condition, body) ==
  [kind |-> "when", method |-> "when", condition |-> condition, body |-> body]

\* the callbacks handed to when, by the statements of their body
FlatBodies ==
  { <<>>, << CallItem("withPlugin") >>,
    << CallItem("onPort"), CallItem("withGracefulShutdown") >> }
InnerBodies ==
  { << CallItem("enableCompression") >>,
    << CallItem("withPlugin"), WhenItem(TRUE, << CallItem("onPort") >>) >> }
NestedBodies ==
  { << CallItem("useHelmet"), WhenItem(c, inner), CallItem("withGracefulShutdown") >> :
      c \in BOOLEAN, inner \in InnerBodies }
CallbackBodies == FlatBodies \cup NestedBodies

PrefixChars == {"/", "a"}
PrefixStrings == UNION { [1..n -> PrefixChars] : n \in 0..MaxPrefixLen }

RECURSIVE when(_, _, _)

\* a callback whose nested when calls are put off until its body has ended
RECURSIVE ConfigureDeferred(_, _)
ConfigureDeferred(b, body) ==
  IF body = <<>> THEN b
  ELSE LET item == Head(body) IN
       IF item.kind = "call"
       THEN ConfigureDeferred(ApplyCall(b, item.method), Tail(body))
       ELSE when(ConfigureDeferred(b, Tail(body)), item.condition, item.body).builder

\* configure(this): the statements of the callback run in order on the
\* instance; a nested when runs to its end before the next statement
RECURSIVE Configure(_, _)
Configure(b, body) ==
  IF body = <<>> THEN b
  ELSE LET item == Head(body) IN
       IF item.kind = "call"
       THEN Configure(ApplyCall(b, item.method), Tail(body))
       ELSE Configure(when(b, item.condition, item.body).builder, Tail(body))

\* when with the test of the condition left out
whenUnconditional(b, condition, configure) ==
  [ builder |-> Configure(b, configure), invocations |-> << Self >>, returned |-> Self ]

\* if (condition) { configure(this) } return this: the instance afterwards,
\* the arguments of each invocation of configure, and the value returned
when(b, condition, configure) ==
  IF condition
  THEN [ builder |-> Configure(b, configure), invocations |-> << Self >>, returned |-> Self ]
  ELSE [ builder |-> b, invocations |-> <<>>, returned |-> Self ]

InitBuilder ==
  /\ WhileConfiguring
  /\ builder \in BuildersAfter(MaxSetupCalls)
  /\ LateIdle /\ UnitIdle /\ PartsIdle

\* one method applied to the instance
Applied(name, arg, after, out) ==
  /\ fn = "none"
  /\ fn' = name
  /\ input' = [builder |-> builder, arg |-> arg]
  /\ builder' = after
  /\ output' = out
  /\ UNCHANGED << pc, cfgKind, cfg, constructed, idx, thrown, history, listenAt, calls,
                  logs, exits, unhandled, rejected, late, parts >>

ApplyWhen ==
  \E condition \in BOOLEAN, configure \in CallbackBodies :
    LET r == when(builder, condition, configure)
    IN  Applied("when", [condition |-> condition, configure |-> configure], r.builder, r)

ApplyUseProductionDefaults ==
  Applied("useProductionDefaults", None, useProductionDefaults(builder), Self)

ApplyUseDevelopmentDefaults ==
  \E o \in DevSwaggerArgs :
    Applied("useDevelopmentDefaults", o, useDevelopmentDefaults(builder, o), Self)

ApplyWithGlobalPrefix ==
  \E prefix \in PrefixStrings :
    Applied("withGlobalPrefix", prefix, withGlobalPrefix(builder, prefix), Self)

NextBuilder ==
  \/ ApplyWhen
  \/ ApplyUseProductionDefaults
  \/ ApplyUseDevelopmentDefaults
  \/ ApplyWithGlobalPrefix

SpecBuilder == InitBuilder /\ [][NextBuilder]_vars

\* C11: when(false, fn) never invokes fn and leaves the builder state as it
\* was; when(true, fn) invokes fn exactly once, with the builder as its only
\* argument, and what fn did is in place when `when` returns; in both cases
\* the builder itself is returned.
C11_WhenConditional ==
  fn = "when" =>
    /\ output.returned = Self
    /\ ~input.arg.condition =>
          /\ output.invocations = <<>>
          /\ builder = input.builder
    /\ input.arg.condition =>
          /\ output.invocations = << Self >>
          /\ builder = Configure(input.builder, input.arg.configure)

\* when(true, fn) on an instance with a plugin, fn registering another one
C11_Witness ==
  /\ fn = "when"
  /\ input.arg.condition
  /\ input.arg.configure = << CallItem("withPlugin") >>
  /\ Len(input.builder.plugins) = 1
  /\ Len(builder.plugins) = 2

\* C12: the presets are sugar: useProductionDefaults() leaves the state that
\* useHelmet(), enableCompression(), withGracefulShutdown() and
\* withPlugin(new RateLimiterPlugin()) leave when called in that order, and
\* useDevelopmentDefaults(o) leaves the state of withSwagger(o with the
\* documentation path) followed by withPlugin(new RequestLoggerPlugin()).
C12_PresetsAreSugar ==
  LET b == input.builder IN
  /\ fn = "useProductionDefaults" =>
        /\ output = Self
        /\ builder =
             withPlugin(withGracefulShutdown(enableCompression(useHelmet(b))),
                        RateLimiterPlugin)
        /\ builder.setupFunctions =
             b.setupFunctions \o <<"helmet", "compression", "enableShutdownHooks">>
        /\ builder.plugins = Append(b.plugins, RateLimiterPlugin)
        /\ \A f \in ScalarFields : builder[f] = b[f]
  /\ fn = "useDevelopmentDefaults" =>
        /\ output = Self
        /\ builder =
             withPlugin(withSwagger(b, [ title |-> input.arg.title,
                                         tags |-> input.arg.tags,
                                         customOptions |-> input.arg.customOptions,
                                         hasPath |-> TRUE, path |-> Some("docs") ]),
                        RequestLoggerPlugin)
        /\ Get(builder.swaggerOptions).path = Some("docs")
        /\ builder.plugins = Append(b.plugins, RequestLoggerPlugin)
        /\ builder.setupFunctions = b.setupFunctions

\* useProductionDefaults on an instance that already has a setup action and
\* a plugin
C12_Witness ==
  /\ fn = "useProductionDefaults"
  /\ Len(input.builder.setupFunctions) = 1
  /\ Len(input.builder.plugins) = 1
  /\ Len(builder.setupFunctions) = 4
  /\ Len(builder.plugins) = 2

\* C13: the route prefix withGlobalPrefix stores always starts with '/': an
\* argument that does not start with '/' gets exactly one '/' in front, an
\* argument that does is stored as it is, and storing the stored value again
\* changes nothing.
C13_PrefixNormalized ==
  fn = "withGlobalPrefix" =>
    LET given == input.arg
        stored == Get(builder.globalPrefix)
    IN  /\ IsSet(builder.globalPrefix)
        /\ Len(stored) >= 1 /\ stored[1] = "/"
        /\ (Len(given) >= 1 /\ given[1] = "/") => stored = given
        /\ (Len(given) = 0 \/ given[1] # "/") =>
              /\ Len(stored) = Len(given) + 1
              /\ \A i \in 1..Len(given) : stored[i + 1] = given[i]
        /\ withGlobalPrefix(builder, stored) = builder
        /\ output = Self

\* "a/a" was given and "/a/a" is stored
C13_Witness ==
  /\ fn = "withGlobalPrefix"
  /\ input.arg = <<"a", "/", "a">>
  /\ Get(builder.globalPrefix) = <<"/", "a", "/", "a">>

\* ------------------------------------------------------------------------
\* listen() with code that still holds the instance: a configurator declared
\* async that goes on after an await of its own, or the apply of a plugin,
\* runs while listen is suspended at one of its awaits and calls chained
\* methods or getApp on the instance
\* ------------------------------------------------------------------------
MaxLate == 1

\* the awaits of listen: NestFactory.create, plugin.apply, app.listen, app.getUrl
AwaitPoints == {"creating", "applying", "binding", "resolvingUrl"}

\* the chained calls made late, named by their method
LateMethods ==
  {"onPort", "withPlugin", "addGlobalInterceptor", "withGracefulShutdown", "withSwagger"}

ApplyLateCall(b, method) ==
  CASE method = "onPort" -> onPort(b, 9000)
    [] method = "withPlugin" -> withPlugin(b, "P2")
    [] method = "addGlobalInterceptor" -> addGlobalInterceptor(b, "I1")
    [] method = "withGracefulShutdown" -> withGracefulShutdown(b)
    [] method = "withSwagger" ->
         withSwagger(b, [title |-> "B", tags |-> <<"users">>, hasPath |-> TRUE,
                         path |-> Some("apidocs"), customOptions |-> None])

\* the sequences of at most n chained calls a configurator makes before its
\* first await
CallSeqs(n) == UNION { [1..k -> SetupCalls] : k \in 0..n }

ConcernsOf(methods) == UNION { ConcernOf(methods[i]) : i \in 1..Len(methods) }

IsStarterMethod(method) == method \in StarterMethods

\* bootstrap has called the configurator, which made its calls and is now
\* suspended at an await; bootstrap is about to call listen()
InitLate ==
  /\ \E methods \in CallSeqs(MaxSetupCalls) :
       /\ builder = ApplyCalls(NewInitializer(RootModule, None), methods)
       /\ nCalls = Len(methods)
       /\ lastReturn = IF methods = <<>> THEN None ELSE Some(Self)
       /\ starterCalls = SelectSeq(methods, IsStarterMethod)
       /\ configured = ConcernsOf(methods)
  /\ pc = "listen"
  /\ cfgKind = "async"
  /\ cfg = "pending"
  /\ constructed = TRUE
  /\ idx = 1
  /\ thrown = None
  /\ lastCall = NoCall
  /\ listenAt = 0
  /\ calls = <<>>
  /\ logs = << Log("log", "bootstrapStart", "", "") >>
  /\ exits = <<>>
  /\ unhandled = 0
  /\ rejected = 0
  /\ LateIdle /\ UnitIdle /\ PartsIdle

\* a chained call on the instance while listen is suspended
LateCall ==
  /\ pc \in AwaitPoints
  /\ nLate < MaxLate
  /\ \E method \in LateMethods : builder' = ApplyLateCall(builder, method)
  /\ nLate' = nLate + 1
  /\ UNCHANGED << pc, cfgKind, cfg, constructed, idx, thrown, history, listenAt, snapshot,
                  calls, logs, exits, unhandled, rejected, unit, parts >>

\* return this.app
getApp(b) == [threw |-> FALSE, value |-> b.app]

\* getApp() called by code holding the instance, before listen has started,
\* while it is suspended, or after it has finished
GetApp ==
  /\ pc \in {"listen", "done"} \cup AwaitPoints
  /\ fn = "none"
  /\ fn' = "getApp"
  /\ input' = [builder |-> builder, arg |-> None]
  /\ output' = getApp(builder)
  /\ UNCHANGED << pc, cfgKind, cfg, builder, constructed, idx, thrown, history, listenAt,
                  calls, logs, exits, unhandled, rejected, late, parts >>

NextLate == LateCall \/ GetApp \/ Listen \/ BootstrapCatch

SpecLate == InitLate /\ [][NextLate]_vars

\* the arguments of the calls with operation op, in order
RECURSIVE ArgsOf(_, _)
ArgsOf(op, seq) ==
  IF seq = <<>> THEN <<>>
  ELSE IF Head(seq).op = op THEN << Head(seq).arg >> \o ArgsOf(op, Tail(seq))
       ELSE ArgsOf(op, Tail(seq))

RECURSIVE PluginsOf(_)
PluginsOf(applyArgs) ==
  IF applyArgs = <<>> THEN <<>>
  ELSE << Head(applyArgs).plugin >> \o PluginsOf(Tail(applyArgs))

\* one field of each of these arguments
RECURSIVE Project(_, _)
Project(args, field) ==
  IF args = <<>> THEN <<>>
  ELSE << Head(args)[field] >> \o Project(Tail(args), field)

SetupsRun == Project(ArgsOf("setup", calls), "fn")
InterceptorsInstalled == Project(ArgsOf("useGlobalInterceptors", calls), "interceptor")

\* C14: the builder state is frozen once listen begins: whatever chained
\* call is made afterwards, the plugins applied, the setup actions run, the
\* interceptors installed, the documentation set up and the port bound are
\* those of the state listen began with, and the composition root is
\* synthesized exactly once, from that state.
C14_FrozenAtListen ==
  IsSet(snapshot) =>
    LET began == Get(snapshot) IN
    /\ Count("create") = 1
    /\ calls[1] = CreateCall(began)
    /\ IsPrefixOf(PluginsOf(ArgsOf("apply", calls)), began.plugins)
    /\ IsPrefixOf(SetupsRun, began.setupFunctions)
    /\ IsPrefixOf(InterceptorsInstalled, began.globalInterceptors)
    /\ Called("buildDocument") => IsSet(began.swaggerOptions)
    /\ \A i \in CallsOf("swaggerSetup") :
          /\ IsSet(began.swaggerOptions)
          /\ LET stored == Get(began.swaggerOptions).path IN
             calls[i].arg.path = (IF IsSet(stored) THEN Get(stored) ELSE "docs")
    /\ \A i \in CallsOf("listen") : calls[i].arg = began.port
    /\ pc = "done" =>
          /\ PluginsOf(ArgsOf("apply", calls)) = began.plugins
          /\ SetupsRun = began.setupFunctions
          /\ InterceptorsInstalled = began.globalInterceptors

\* C20: getApp raises an error when it is called before the materialization
\* has created the application object, and returns the application object
\* once it has.
C20_GetAppGuarded ==
  fn = "getApp" =>
    IF IsSet(input.builder.app)
    THEN ~output.threw /\ output.value = Some(AppHandle)
    ELSE output.threw

\* ------------------------------------------------------------------------
\* The scanner applied on its own to the files a glob returned
\* ------------------------------------------------------------------------
MaxFiles == 3

\* the files of the scanned tree
ScannedFiles ==
  { SourceFile("controller.ts", FALSE,
               << Export("UserController", TRUE, Some("/users"), FALSE) >>),
    SourceFile("provider.ts", FALSE,
               << Export("UserService", TRUE, None, TRUE) >>),
    SourceFile("mixed.ts", FALSE,
               << Export("Both", TRUE, Some("/both"), TRUE),
                  Export("helper", FALSE, Some("/helper"), TRUE),
                  Export("Plain", TRUE, None, FALSE) >>),
    SourceFile("root.ts", FALSE,
               << Export("RootController", TRUE, Some(""), FALSE),
                  Export("RootGateway", TRUE, Some(""), TRUE) >>),
    SourceFile("partial.ts", FALSE,
               << Export("EarlyService", TRUE, None, TRUE),
                  RaisingExport("lazy"),
                  Export("LateController", TRUE, Some("/late"), FALSE) >>),
    SourceFile("broken.ts", TRUE,
               << Export("BrokenController", TRUE, Some("/broken"), FALSE),
                  Export("BrokenService", TRUE, None, TRUE) >>),
    \* export * from './controller'; export * from './provider'
    SourceFile("index.ts", FALSE,
               << Export("UserController", TRUE, Some("/users"), FALSE),
                  Export("UserService", TRUE, None, TRUE) >>),
    \* export { MailService, MailService as Mailer }
    SourceFile("aliases.ts", FALSE,
               << Export("MailService", TRUE, None, TRUE),
                  Export("MailService", TRUE, None, TRUE) >>) }

\* what globSync returns: a list of at most MaxFiles of them, no file twice
FileLists ==
  { files \in UNION { [1..n -> ScannedFiles] : n \in 0..MaxFiles } :
      \A i, j \in 1..Len(files) : i # j => files[i] # files[j] }

InitScan ==
  /\ pc = "start" /\ cfgKind = "unobserved" /\ cfg = "idle"
  /\ builder = NewInitializer(RootModule, None)
  /\ constructed = FALSE /\ idx = 1 /\ thrown = None
  /\ nCalls = 0 /\ lastCall = NoCall /\ lastReturn = None
  /\ starterCalls = <<>> /\ listenAt = 0 /\ configured = {}
  /\ calls = <<>> /\ logs = <<>> /\ exits = <<>> /\ unhandled = 0 /\ rejected = 0
  /\ LateIdle /\ PartsIdle
  /\ fn = "none"
  /\ input \in FileLists
  /\ output = None

\* discoverComponents(basePath, reflector, requireFn) on these files
Discover ==
  /\ fn = "none"
  /\ fn' = "discoverComponents"
  /\ LET found == Scan(input)
     IN  output' = [ threw |-> FALSE,
                     value |-> [ providers |-> found.providers,
                                 controllers |-> found.controllers ],
                     queries |-> found.queries ]
  /\ UNCHANGED << pc, cfgKind, cfg, builder, constructed, idx, thrown, history, listenAt,
                  calls, logs, exits, unhandled, rejected, late, input, parts >>

NextScan == Discover

SpecScan == InitScan /\ [][NextScan]_vars

Loads(file) == ~file.throws

Range(seq) == { seq[i] : i \in 1..Len(seq) }

\* C15: a file whose load throws neither aborts the scan nor surfaces an
\* error: discoverComponents returns normally and its result is the result
\* of scanning the same list without the files that throw; a handler file, an
\* injectable file and a broken file give one handler and one injectable.
C15_BrokenFilesSkipped ==
  fn = "discoverComponents" =>
    LET rest == Scan(SelectSeq(input, Loads)) IN
    /\ ~output.threw
    /\ output.value.providers = rest.providers
    /\ output.value.controllers = rest.controllers
    /\ \A i \in 1..Len(input) : input[i].throws =>
          \A k \in 1..Len(input[i].exports) :
            input[i].exports[k].cls \notin
              Range(output.value.providers) \cup Range(output.value.controllers)
    /\ (Len(input) = 3 /\ input[1].name = "controller.ts" /\ input[2].name = "provider.ts"
        /\ input[3].name = "broken.ts") =>
          /\ output.value.controllers = << "UserController" >>
          /\ output.value.providers = << "UserService" >>

\* the broken file comes first and the files after it are still scanned
C15_Witness ==
  /\ fn = "discoverComponents"
  /\ Len(input) = 3
  /\ input[1].name = "broken.ts"
  /\ input[2].name = "controller.ts"
  /\ input[3].name = "provider.ts"
  /\ output.value.controllers = << "UserController" >>
  /\ output.value.providers = << "UserService" >>

\* the exports of a file that the loop gets to: all of them, or those before
\* the first one that throws
RECURSIVE ReachedExports(_)
ReachedExports(exports) ==
  IF exports = <<>> \/ Head(exports).raises THEN <<>>
  ELSE << Head(exports) >> \o ReachedExports(Tail(exports))

\* C16: classification is exclusive, handlers first: a class-like export
\* with routing-path metadata is a handler, also when it carries the
\* injectable marker; otherwise one with the injectable marker is an
\* injectable; a class-like export with neither, and any export that is not
\* class-like, is in neither collection; nothing is in both.
C16_ExclusiveClassification ==
  fn = "discoverComponents" =>
    LET handlers == Range(output.value.controllers)
        injectables == Range(output.value.providers)
    IN  /\ handlers \cap injectables = {}
        /\ \A i \in 1..Len(input) : Loads(input[i]) =>
              \A e \in Range(ReachedExports(input[i].exports)) :
                /\ (e.classLike /\ IsSet(e.path)) =>
                      e.cls \in handlers /\ e.cls \notin injectables
                /\ (e.classLike /\ ~IsSet(e.path) /\ e.injectable) =>
                      e.cls \in injectables /\ e.cls \notin handlers
                /\ (e.classLike /\ ~IsSet(e.path) /\ ~e.injectable) =>
                      e.cls \notin handlers \cup injectables
                /\ ~e.classLike => e.cls \notin handlers \cup injectables

\* ------------------------------------------------------------------------
\* HealthController.check (features/health) applied on its own
\* ------------------------------------------------------------------------
DefaultHeapThreshold == 200
DefaultRssThreshold == 300
MiB == 1024 * 1024

\* TerminusHealthCheckOptions.memory: unset, or an object whose keys may be
\* left out
HeapThresholds == {None, Some(0), Some(100)}
RssThresholds == {None, Some(0), Some(50)}
MemoryOptions ==
  {None} \cup { Some([heapThreshold |-> h, rssThreshold |-> r]) :
                  h \in HeapThresholds, r \in RssThresholds }

\* TerminusHealthCheckOptions.database: unset, false or true
DatabaseOptions == {None, Some(FALSE), Some(TRUE)}

\* the options injected as HEALTH_CHECK_OPTIONS, and whether the optional
\* TypeOrmHealthIndicator was injected
HealthInputs ==
  [ database : DatabaseOptions, memory : MemoryOptions, db : BOOLEAN ]

HealthIndicator(indicator, method, key, threshold) ==
  [indicator |-> indicator, method |-> method, key |-> key, threshold |-> threshold]

\* check without the test of this.db
checkWithoutIndicatorTest(in) ==
  (IF IsSet(in.database) /\ Get(in.database)
   THEN << HealthIndicator("db", "pingCheck", "database", None) >> ELSE <<>>)
  \o (IF IsSet(in.memory)
      THEN LET heapThreshold == IF IsSet(Get(in.memory).heapThreshold)
                                THEN Get(Get(in.memory).heapThreshold)
                                ELSE DefaultHeapThreshold
               rssThreshold == IF IsSet(Get(in.memory).rssThreshold)
                               THEN Get(Get(in.memory).rssThreshold)
                               ELSE DefaultRssThreshold
           IN  << HealthIndicator("memory", "checkHeap", "memory_heap",
                                  Some(heapThreshold * MiB)),
                  HealthIndicator("memory", "checkRSS", "memory_rss",
                                  Some(rssThreshold * MiB)) >>
      ELSE <<>>)

\* the list of checks that check() hands to health.check
check(in) ==
  (IF IsSet(in.database) /\ Get(in.database) /\ in.db
   THEN << HealthIndicator("db", "pingCheck", "database", None) >> ELSE <<>>)
  \o (IF IsSet(in.memory)
      THEN LET heapThreshold == IF IsSet(Get(in.memory).heapThreshold)
                                THEN Get(Get(in.memory).heapThreshold)
                                ELSE DefaultHeapThreshold
               rssThreshold == IF IsSet(Get(in.memory).rssThreshold)
                               THEN Get(Get(in.memory).rssThreshold)
                               ELSE DefaultRssThreshold
           IN  << HealthIndicator("memory", "checkHeap", "memory_heap",
                                  Some(heapThreshold * MiB)),
                  HealthIndicator("memory", "checkRSS", "memory_rss",
                                  Some(rssThreshold * MiB)) >>
      ELSE <<>>)

InitHealth ==
  /\ pc = "start" /\ cfgKind = "unobserved" /\ cfg = "idle"
  /\ builder = NewInitializer(RootModule, None)
  /\ constructed = FALSE /\ idx = 1 /\ thrown = None
  /\ nCalls = 0 /\ lastCall = NoCall /\ lastReturn = None
  /\ starterCalls = <<>> /\ listenAt = 0 /\ configured = {}
  /\ calls = <<>> /\ logs = <<>> /\ exits = <<>> /\ unhandled = 0 /\ rejected = 0
  /\ LateIdle /\ PartsIdle
  /\ fn = "none"
  /\ input \in HealthInputs
  /\ output = None

\* GET /health
HealthCheck ==
  /\ fn = "none"
  /\ fn' = "check"
  /\ output' = check(input)
  /\ UNCHANGED << pc, cfgKind, cfg, builder, constructed, idx, thrown, history, listenAt,
                  calls, logs, exits, unhandled, rejected, late, input, parts >>

NextHealth == HealthCheck

SpecHealth == InitHealth /\ [][NextHealth]_vars

\* C17: the health endpoint hands the health service one check when the
\* database option is on and a database indicator is there, plus two when
\* the memory option is set, in the order database, heap, resident memory;
\* a check that is not configured is absent.
C17_HealthChecks ==
  fn = "check" =>
    LET wantsDb == IsSet(input.database) /\ Get(input.database) /\ input.db
        nDb == IF wantsDb THEN 1 ELSE 0
        nMemory == IF IsSet(input.memory) THEN 2 ELSE 0
    IN  /\ Len(output) = nDb + nMemory
        /\ wantsDb => output[1].key = "database"
        /\ IsSet(input.memory) =>
              /\ output[nDb + 1].key = "memory_heap"
              /\ output[nDb + 2].key = "memory_rss"
        /\ (input.database = Some(TRUE) /\ ~input.db /\ ~IsSet(input.memory)) =>
              output = <<>>
        /\ (input.database = Some(TRUE) /\ input.db
            /\ input.memory = Some([heapThreshold |-> None, rssThreshold |-> None])) =>
              Len(output) = 3

\* the database option is on, no indicator was injected, memory is set
C17_Witness ==
  /\ fn = "check"
  /\ input.database = Some(TRUE)
  /\ ~input.db
  /\ IsSet(input.memory)
  /\ Len(output) = 2
  /\ output[1].key = "memory_heap"

\* ------------------------------------------------------------------------
\* MetricsInterceptor.intercept (features/metrics): one request going
\* through the interceptor.  next.handle().pipe(finalize(cb)) calls cb when
\* the handler stream completes, when it errors, and when the subscriber
\* unsubscribes before either.
\* ------------------------------------------------------------------------
MaxEmissions == 2

StatusCodes == {200, 201, 404, 500}
RequestMethods == {"GET", "POST"}
\* request.route?.path: the route pattern, when a route was resolved
RoutePatterns == {None, Some("/users/:id")}
RequestPath == "/users/1"

Terminated == {"completed", "errored", "unsubscribed"}

\* the labels handed to end(): request.route?.path ?? request.path, and
\* response.statusCode as it is when the callback runs
Labels(m) ==
  [ method |-> m.method,
    path |-> IF IsSet(m.route) THEN Get(m.route) ELSE m.path,
    status_code |-> m.statusCode ]

\* the callback of finalize runs as the subscription ends with `how`
Finalize(m, how) ==
  [m EXCEPT !.phase = how,
            !.observations = Append(@, Labels(m)),
            !.endStatus = Some(m.statusCode)]

InitMetrics ==
  /\ pc = "start" /\ cfgKind = "unobserved" /\ cfg = "idle"
  /\ builder = NewInitializer(RootModule, None)
  /\ constructed = FALSE /\ idx = 1 /\ thrown = None
  /\ nCalls = 0 /\ lastCall = NoCall /\ lastReturn = None
  /\ starterCalls = <<>> /\ listenAt = 0 /\ configured = {}
  /\ calls = <<>> /\ logs = <<>> /\ exits = <<>> /\ unhandled = 0 /\ rejected = 0
  /\ LateIdle /\ UnitIdle
  /\ migration = None
  /\ \E method \in RequestMethods, route \in RoutePatterns :
       metrics = [ phase |-> "received", method |-> method, route |-> route,
                   path |-> RequestPath, statusCode |-> 200, timers |-> 0,
                   emitted |-> 0, observations |-> <<>>, endStatus |-> None ]

MetricsStep(after) ==
  /\ metrics' = after
  /\ UNCHANGED << pc, cfgKind, cfg, builder, constructed, idx, thrown, history, listenAt,
                  calls, logs, exits, unhandled, rejected, late, unit, migration >>

\* intercept(context, next): the timer is started, the piped stream returned
Intercept ==
  /\ metrics.phase = "received"
  /\ MetricsStep([metrics EXCEPT !.phase = "intercepted", !.timers = @ + 1])

\* the framework subscribes to the stream intercept returned
Subscribe ==
  /\ metrics.phase = "intercepted"
  /\ MetricsStep([metrics EXCEPT !.phase = "subscribed"])

\* the handler (or a filter, once the stream is over) sets the status code
SetStatus ==
  /\ metrics.phase # "received"
  /\ \E code \in StatusCodes \ {metrics.statusCode} :
       MetricsStep([metrics EXCEPT !.statusCode = code])

HandlerEmits ==
  /\ metrics.phase = "subscribed"
  /\ metrics.emitted < MaxEmissions
  /\ MetricsStep([metrics EXCEPT !.emitted = @ + 1])

HandlerCompletes ==
  /\ metrics.phase = "subscribed"
  /\ MetricsStep(Finalize(metrics, "completed"))

HandlerErrors ==
  /\ metrics.phase = "subscribed"
  /\ MetricsStep(Finalize(metrics, "errored"))

\* an operator further out (a timeout, a take) unsubscribes while the
\* handler stream is still open
Unsubscribe ==
  /\ metrics.phase = "subscribed"
  /\ MetricsStep(Finalize(metrics, "unsubscribed"))

NextMetrics ==
  \/ Intercept \/ Subscribe \/ SetStatus \/ HandlerEmits
  \/ HandlerCompletes \/ HandlerErrors \/ Unsubscribe

SpecMetrics == InitMetrics /\ [][NextMetrics]_vars

\* C18: for every intercepted request exactly one observation is recorded,
\* and only when the handler stream terminates, by completing or by
\* erroring, never before; its labels are the request method, the route
\* pattern (the raw path when there is none) and the status code of the
\* response as it was at termination.
C18_OneObservationAtTermination ==
  /\ Len(metrics.observations) <= 1
  /\ metrics.phase \in {"completed", "errored"} <=> Len(metrics.observations) = 1
  /\ \A i \in 1..Len(metrics.observations) :
        LET seen == metrics.observations[i] IN
        /\ seen.method = metrics.method
        /\ seen.path = (IF IsSet(metrics.route) THEN Get(metrics.route) ELSE metrics.path)
        /\ Some(seen.status_code) = metrics.endStatus

\* ------------------------------------------------------------------------
\* TypeOrmMigrationPlugin.apply
\* ------------------------------------------------------------------------
StartMessage == "Iniciando execução das migrations do banco de dados..."
SuccessMessage == "Migrations executadas com sucesso."
FailureMessage == "Falha ao obter DataSource ou executar migrations."

\* errors the application stub may raise
MigrationErrors == {"GetError", "MigrationError", "QueryFailedError", "TimeoutError"}
\* raised by the runtime when runMigrations is read from undefined
TypeError == "TypeError"

\* app.get(DataSource): returns a DataSource, returns undefined, or throws
GetBehaviours ==
  {[kind |-> "returns", value |-> v, error |-> ""] : v \in {"DataSource", "undefined"}}
    \cup {[kind |-> "throws", value |-> "", error |-> e] : e \in MigrationErrors}

\* dataSource.runMigrations(): resolves, rejects, or throws before returning a promise
RunBehaviours ==
  {[kind |-> "resolves", error |-> ""]}
    \cup {[kind |-> k, error |-> e] : k \in {"rejects", "throws"}, e \in MigrationErrors}

AppStubs == {[get |-> g, run |-> r] : g \in GetBehaviours, r \in RunBehaviours}

LogEntry(level, message, error) ==
  [level |-> level, message |-> message, error |-> error]

\* a catch clause that logs and then returns normally
CatchSwallows(m, error) ==
  [m EXCEPT !.phase = "resolved",
            !.logs = Append(@, LogEntry("error", FailureMessage, Some(error))),
            !.raised = None]

\* catch (error) { this.logger.error(message, error); throw error; }
Catch(m, error) ==
  [m EXCEPT !.phase = "rejected",
            !.logs = Append(@, LogEntry("error", FailureMessage, Some(error))),
            !.raised = None,
            !.rejection = Some(error)]

InitMigration ==
  /\ pc = "start" /\ cfgKind = "unobserved" /\ cfg = "idle"
  /\ builder = NewInitializer(RootModule, None)
  /\ constructed = FALSE /\ idx = 1 /\ thrown = None
  /\ nCalls = 0 /\ lastCall = NoCall /\ lastReturn = None
  /\ starterCalls = <<>> /\ listenAt = 0 /\ configured = {}
  /\ calls = <<>> /\ logs = <<>> /\ exits = <<>> /\ unhandled = 0 /\ rejected = 0
  /\ LateIdle
  /\ metrics = None
  /\ fn = "apply"
  /\ input \in AppStubs
  /\ output = None
  /\ migration = [ phase |-> "called", dataSource |-> "", logs |-> <<>>,
                   getCalls |-> 0, runCalls |-> 0, raised |-> None,
                   rejection |-> None ]

MigrationStep(after) ==
  /\ fn = "apply"
  /\ migration # None
  /\ migration' = after
  /\ UNCHANGED << pc, cfgKind, cfg, builder, constructed, idx, thrown, history, listenAt,
                  calls, logs, exits, unhandled, rejected, late, unit, metrics >>

\* const dataSource = app.get(DataSource);
GetDataSource ==
  /\ migration.phase = "called"
  /\ MigrationStep(
       IF input.get.kind = "throws"
       THEN [migration EXCEPT !.phase = "caught", !.getCalls = @ + 1,
                              !.raised = Some(input.get.error)]
       ELSE [migration EXCEPT !.phase = "obtained", !.getCalls = @ + 1,
                              !.dataSource = input.get.value])

\* this.logger.log('Iniciando ...');
LogStart ==
  /\ migration.phase = "obtained"
  /\ MigrationStep([migration EXCEPT !.phase = "started",
                                     !.logs = Append(@, LogEntry("log", StartMessage, None))])

\* dataSource.runMigrations(): the call itself
RunMigrations ==
  /\ migration.phase = "started"
  /\ MigrationStep(
       IF migration.dataSource = "undefined"
       THEN [migration EXCEPT !.phase = "caught", !.raised = Some(TypeError)]
       ELSE IF input.run.kind = "throws"
       THEN [migration EXCEPT !.phase = "caught", !.runCalls = @ + 1,
                              !.raised = Some(input.run.error)]
       ELSE [migration EXCEPT !.phase = "running", !.runCalls = @ + 1])

\* await ...: the promise resolves
MigrationsResolve ==
  /\ migration.phase = "running"
  /\ input.run.kind = "resolves"
  /\ MigrationStep([migration EXCEPT !.phase = "migrated"])

\* await ...: the promise rejects
MigrationsReject ==
  /\ migration.phase = "running"
  /\ input.run.kind = "rejects"
  /\ MigrationStep([migration EXCEPT !.phase = "caught",
                                     !.raised = Some(input.run.error)])

\* this.logger.log('Migrations executadas com sucesso.'); the promise of apply resolves
LogSuccess ==
  /\ migration.phase = "migrated"
  /\ MigrationStep([migration EXCEPT !.phase = "resolved",
                                     !.logs = Append(@, LogEntry("log", SuccessMessage, None))])

CatchError ==
  /\ migration.phase = "caught"
  /\ MigrationStep(Catch(migration, Get(migration.raised)))

NextMigration ==
  \/ GetDataSource \/ LogStart \/ RunMigrations
  \/ MigrationsResolve \/ MigrationsReject \/ LogSuccess \/ CatchError

SpecMigration == InitMigration /\ [][NextMigration]_vars

\* claim helpers
MigrationLogs(level) ==
  SelectSeq(migration.logs, LAMBDA entry : entry.level = level)
MessageLogged(message) ==
  \E i \in 1..Len(migration.logs) : migration.logs[i].message = message
GetFails == input.get.kind = "throws"
RunFails == input.get.value = "DataSource" /\ input.run.kind \in {"rejects", "throws"}
FailureOf == IF GetFails THEN input.get.error ELSE input.run.error
ApplySettled == migration.phase \in {"resolved", "rejected"}

\* C19: TypeOrmMigrationPlugin.apply never swallows a failure. When obtaining
\* the DataSource throws or runMigrations fails, apply ends rejected with that
\* same error after exactly one error log carrying it, and the success message
\* is never logged; when obtaining the DataSource failed, runMigrations is not
\* invoked and the start message is not logged. On success no error is logged
\* and the log is the start message followed by the success message.
C19_MigrationFailureRethrown ==
  /\ Len(MigrationLogs("error")) <= 1
  /\ (GetFails \/ RunFails) =>
       /\ ~MessageLogged(SuccessMessage)
       /\ migration.phase # "resolved"
       /\ ApplySettled =>
            /\ migration.rejection = Some(FailureOf)
            /\ MigrationLogs("error")
                 = << LogEntry("error", FailureMessage, Some(FailureOf)) >>
  /\ GetFails => migration.runCalls = 0 /\ ~MessageLogged(StartMessage)
  /\ (migration.phase = "resolved") =>
       /\ MigrationLogs("error") = <<>>
       /\ migration.logs = << LogEntry("log", StartMessage, None),
                              LogEntry("log", SuccessMessage, None) >>
       /\ migration.runCalls = 1
       /\ migration.rejection = None

\* apply has ended rejected after a failing runMigrations
C19_Witness ==
  /\ RunFails
  /\ migration.phase = "rejected"
  /\ migration.runCalls = 1
  /\ Len(MigrationLogs("error")) = 1

\* ------------------------------------------------------------------------
\* Documentation setup and the advanced Swagger UI
\* ------------------------------------------------------------------------
\* the builder as it would be had withAdvancedSwaggerUI never been called
WithoutAdvancedSwaggerUI(b) == [b EXCEPT !.advancedSwaggerUiOptions = None]

\* C21: when both withSwagger and withAdvancedSwaggerUI were called, the
\* documentation setup call made in listen carries the advanced UI
\* customization: the state written by withAdvancedSwaggerUI influences the
\* arguments of SwaggerModule.setup.
C21_AdvancedSwaggerUiApplied ==
  \A i \in CallsOf("swaggerSetup") :
     IsSet(builder.advancedSwaggerUiOptions) =>
       /\ SwaggerCalls(builder) # SwaggerCalls(WithoutAdvancedSwaggerUI(builder))
       /\ calls[i].arg.options # Get(builder.swaggerOptions).customOptions

\* ------------------------------------------------------------------------
\* Frame of a chained call
\* ------------------------------------------------------------------------
IsChainedCall == nCalls' = nCalls + 1 /\ cfg' = "running"

\* the field a chained method writes by itself
WrittenBy(method) ==
  ScalarsOf(method) \cup AppendsOf(method)
    \cup (IF method = "withAdvancedSwaggerUI" THEN {"advancedSwaggerUiOptions"} ELSE {})
    \cup (IF method = "withAutoDiscovery" THEN {"autoDiscoveredComponents"} ELSE {})

ChangedFields == {f \in DOMAIN builder : builder'[f] # builder[f]}
Grown(f) == Len(builder'[f]) - Len(builder[f])

\* the calls that are made of several primitive calls
IsComposite(call) ==
  \/ call.method \in {"useDevelopmentDefaults", "useProductionDefaults"}
  \/ IF call.method = "withTypeOrm" THEN call.arg.runMigrationsOnStartup ELSE FALSE

OneFieldWritten(method) ==
  /\ Cardinality(WrittenBy(method)) = 1
  /\ ChangedFields \subseteq WrittenBy(method)
  /\ \A f \in AppendsOf(method) : Grown(f) = 1 /\ IsPrefixOf(builder[f], builder'[f])

\* C22 as stated: each chained call writes exactly one field of the builder,
\* or appends one entry to exactly one sequence, and leaves every other field
\* unchanged; withTypeOrm included, whatever runMigrationsOnStartup is.
C22_OneFieldPerCall ==
  [][IsChainedCall => OneFieldWritten(lastCall'.method)]_vars

\* C22 amended: each chained call other than the composite ones writes
\* exactly one field, or appends one entry to exactly one sequence, and
\* leaves every other field unchanged. withTypeOrm with runMigrationsOnStartup
\* appends one module to featureModules and the migration plugin to plugins;
\* useDevelopmentDefaults sets swaggerOptions and appends one plugin;
\* useProductionDefaults appends three setup functions and one plugin. Every
\* other field is left unchanged by these as well.
C22_OneFieldPerPrimitiveCall ==
  [][IsChainedCall =>
       LET m == lastCall'.method IN
       /\ ~IsComposite(lastCall') => OneFieldWritten(m)
       /\ (m = "withTypeOrm" /\ IsComposite(lastCall')) =>
            /\ ChangedFields = {"featureModules", "plugins"}
            /\ Grown("featureModules") = 1 /\ Grown("plugins") = 1
            /\ IsPrefixOf(builder.featureModules, builder'.featureModules)
            /\ IsPrefixOf(builder.plugins, builder'.plugins)
            /\ Last(builder'.plugins) = TypeOrmMigrationPlugin
       /\ m = "useDevelopmentDefaults" =>
            /\ ChangedFields \subseteq {"swaggerOptions", "plugins"}
            /\ Grown("plugins") = 1
            /\ IsPrefixOf(builder.plugins, builder'.plugins)
       /\ m = "useProductionDefaults" =>
            /\ ChangedFields = {"setupFunctions", "plugins"}
            /\ Grown("setupFunctions") = 3 /\ Grown("plugins") = 1
            /\ IsPrefixOf(builder.setupFunctions, builder'.setupFunctions)
            /\ IsPrefixOf(builder.plugins, builder'.plugins)]_vars

\* withTypeOrm({runMigrationsOnStartup: true}) has returned: the starter's
\* module and the migration plugin are both registered
C22_Witness ==
  /\ cfg = "running"
  /\ lastCall.method = "withTypeOrm"
  /\ lastCall.arg.runMigrationsOnStartup
  /\ Len(builder.featureModules) >= 1
  /\ Last(builder.featureModules) = "TypeOrmModule"
  /\ Len(builder.plugins) >= 1
  /\ Last(builder.plugins) = TypeOrmMigrationPlugin

\* ------------------------------------------------------------------------
\* Nested when
\* ------------------------------------------------------------------------
\* the chained calls a callback body executes, in execution order: the
\* statements of a nested callback stand where its when stands, and only
\* when its condition holds
RECURSIVE Executed(_)
Executed(body) ==
  IF body = <<>> THEN <<>>
  ELSE LET item == Head(body) IN
       (IF item.kind = "call" THEN << item.method >>
        ELSE IF item.condition THEN Executed(item.body) ELSE <<>>)
         \o Executed(Tail(body))

HasNestedWhen(body) == \E i \in 1..Len(body) : body[i].kind = "when"

\* C23: when is re-entrant. Whatever the nesting of when calls in the
\* callback, every ordered sequence of the builder ends up with its entries
\* in the order in which the chained calls were executed: the state is the
\* one the same calls leave when made directly, without when.
C23_WhenReentrant ==
  (fn = "when" /\ input.arg.condition) =>
     LET direct == ApplyCalls(input.builder, Executed(input.arg.configure)) IN
     /\ \A f \in SequenceFields : builder[f] = direct[f]
     /\ \A f \in ScalarFields : builder[f] = direct[f]

\* a callback that registers a setup action, calls when with a callback that
\* registers another one, then registers a third: all three are in place in
\* execution order
C23_Witness ==
  /\ fn = "when"
  /\ input.arg.condition
  /\ HasNestedWhen(input.arg.configure)
  /\ input.arg.configure[2].condition
  /\ input.arg.configure[2].body = << CallItem("enableCompression") >>
  /\ input.builder.setupFunctions = <<>>
  /\ builder.setupFunctions = << "helmet", "compression", "enableShutdownHooks" >>

\* ------------------------------------------------------------------------
\* Lifetime of the discovered components
\* ------------------------------------------------------------------------
\* C24: the discovered components are populated at most once over the
\* lifetime of the builder: once the scanner's result has been assigned, no
\* later chained call (a second withAutoDiscovery in particular) assigns or
\* replaces it.
C24_DiscoveredAtMostOnce ==
  [][IsSet(builder.autoDiscoveredComponents) =>
       /\ builder'.autoDiscoveredComponents = builder.autoDiscoveredComponents
       /\ ~(IsChainedCall /\ lastCall'.method = "withAutoDiscovery")]_vars

\* ------------------------------------------------------------------------
\* Setup actions and global interceptors during materialization
\* ------------------------------------------------------------------------
\* C25: every setup action and every global interceptor registered before
\* listen is applied exactly once during materialization, in registration
\* order, each with the same application handle: what has been applied so
\* far is always the beginning of what was registered, and a completed
\* materialization has applied all of it.
C25_SetupAndInterceptorsFifo ==
  IsSet(snapshot) =>
    LET began == Get(snapshot) IN
    /\ IsPrefixOf(SetupsRun, began.setupFunctions)
    /\ IsPrefixOf(InterceptorsInstalled, began.globalInterceptors)
    /\ \A i \in CallsOf("setup") \cup CallsOf("useGlobalInterceptors") :
          calls[i].arg.app = Some(AppHandle)
    /\ pc = "done" =>
          /\ SetupsRun = began.setupFunctions
          /\ InterceptorsInstalled = began.globalInterceptors

\* a completed materialization that ran two different setup actions
C25_Witness ==
  /\ pc = "done"
  /\ IsSet(snapshot)
  /\ Len(SetupsRun) = 2
  /\ SetupsRun[1] # SetupsRun[2]
  /\ SetupsRun = Get(snapshot).setupFunctions

\* ------------------------------------------------------------------------
\* Reflector queries of the scanner
\* ------------------------------------------------------------------------
\* the queries one export calls for: none when it is not class-like, the
\* routing path and then the injectable marker when both are asked
\* (whenever `both`, else only when there is no routing path)
QueriesOfExport(e, both) ==
  IF ~e.classLike THEN <<>>
  ELSE IF both \/ ~Truthy(e.path)
       THEN << Query("path", e.cls), Query("__injectable__", e.cls) >>
       ELSE << Query("path", e.cls) >>

RECURSIVE QueriesOfExports(_, _)
QueriesOfExports(exports, both) ==
  IF exports = <<>> THEN <<>>
  ELSE QueriesOfExport(Head(exports), both) \o QueriesOfExports(Tail(exports), both)

RECURSIVE QueriesOfFiles(_, _)
QueriesOfFiles(files, both) ==
  IF files = <<>> THEN <<>>
  ELSE (IF Loads(Head(files))
        THEN QueriesOfExports(ReachedExports(Head(files).exports), both)
        ELSE <<>>)
         \o QueriesOfFiles(Tail(files), both)

\* C26 as stated: for every class-like export the scanner queries both the
\* routing path and the injectable marker, with no short-circuit; for an
\* export that is not class-like it queries neither.
C26_BothPredicatesQueried ==
  fn = "discoverComponents" => output.queries = QueriesOfFiles(input, TRUE)

\* C26 amended: for every class-like export the scanner queries the routing
\* path, and the injectable marker only when that query gave no routing path;
\* the queries made for an export depend on that export alone, not on its
\* place in the file; for an export that is not class-like neither is queried.
C26_MarkerQueriedWithoutPath ==
  fn = "discoverComponents" => output.queries = QueriesOfFiles(input, FALSE)

\* a file with a handler that also carries the marker, a value that is not a
\* class and an undecorated class: one, none and two queries
C26_Witness ==
  /\ fn = "discoverComponents"
  /\ Len(input) = 1
  /\ input[1].name = "mixed.ts"
  /\ output.queries = << Query("path", "Both"), Query("path", "Plain"),
                         Query("__injectable__", "Plain") >>

\* ------------------------------------------------------------------------
\* The scanner's results as sets
\* ------------------------------------------------------------------------
NoDuplicates(seq) == \A i, j \in 1..Len(seq) : i # j => seq[i] # seq[j]

\* C27: the two results of the scanner are sets: no class occurs more than
\* once among the handlers or more than once among the injectables, also
\* when several scanned files export the same class or one file exports it
\* under several names.
C27_ResultsAreSets ==
  fn = "discoverComponents" =>
    /\ NoDuplicates(output.value.controllers)
    /\ NoDuplicates(output.value.providers)

\* ------------------------------------------------------------------------
\* The migration plugin of the TypeORM starter
\* ------------------------------------------------------------------------
\* the starter holds one migration plugin exactly when the option asks for it
StarterYieldsMigrationPlugin ==
  \A o \in TypeOrmArgs :
    createTypeOrmStarter(o).plugins =
      (IF o.runMigrationsOnStartup THEN << TypeOrmMigrationPlugin >> ELSE <<>>)

\* a withTypeOrm call registers what its starter holds, after what was there
WithTypeOrmRegistersStarter ==
  (IsChainedCall /\ lastCall'.method = "withTypeOrm") =>
     /\ builder'.plugins =
          builder.plugins
            \o (IF lastCall'.arg.runMigrationsOnStartup
                THEN << TypeOrmMigrationPlugin >> ELSE <<>>)
     /\ builder'.featureModules = Append(builder.featureModules, "TypeOrmModule")

\* the migration plugin is applied at its place among the plugins, and the
\* listener is bound only after its apply has resolved
MigrationsBeforeBind ==
  IsSet(snapshot) =>
    LET began == Get(snapshot)
        ev == PluginEvents(calls)
    IN  \A k \in 1..Len(began.plugins) :
          began.plugins[k] = TypeOrmMigrationPlugin =>
            /\ Len(ev) >= 2 * k - 1 =>
                 /\ ev[2 * k - 1].op = "apply"
                 /\ ev[2 * k - 1].arg.plugin = TypeOrmMigrationPlugin
            /\ Called("listen") =>
                 /\ Len(ev) >= 2 * k
                 /\ ev[2 * k].op = "applied"
                 /\ ev[2 * k].arg = TypeOrmMigrationPlugin
            /\ (Len(ev) >= 2 * k /\ ev[2 * k].op = "applyFailed") =>
                 /\ ~Called("listen")
                 /\ pc \in {"catch", "exited"}

\* C28: the TypeORM starter yields exactly one migration plugin if and only
\* if runMigrationsOnStartup is true; a withTypeOrm call with the option set
\* registers it after the plugins already there; during materialization it
\* is applied at that position, the listener is bound only after its apply
\* (the migrations) has completed, and never when it failed.
C28_MigrationPluginIffOption ==
  /\ [](StarterYieldsMigrationPlugin /\ MigrationsBeforeBind)
  /\ [][WithTypeOrmRegistersStarter]_vars

\* a completed run in which a custom plugin was registered before
\* withTypeOrm({runMigrationsOnStartup: true}): both applied, in that order,
\* before the bind
C28_Witness ==
  /\ pc = "done"
  /\ Len(builder.plugins) = 2
  /\ builder.plugins[2] = TypeOrmMigrationPlugin
  /\ builder.plugins[1] # TypeOrmMigrationPlugin
  /\ Count("applied") = 2
  /\ Called("listening")

\* ------------------------------------------------------------------------
\* bootstrap without a configurator
\* ------------------------------------------------------------------------
\* C29: bootstrap called with an adapter and no configurator rejects with a
\* TypeError before any builder is constructed: no configurator call, no
\* listen, no log of the failure handler (no log at all) and no process
\* exit.
C29_MissingConfiguratorTypeError ==
  pc = "typeError" =>
    /\ ~constructed
    /\ builder = NewInitializer(RootModule, None)
    /\ cfg = "idle" /\ nCalls = 0
    /\ calls = <<>>
    /\ ~IsSet(snapshot)
    /\ logs = <<>>
    /\ exits = <<>>
    /\ unhandled = 0
    /\ ~IsSet(thrown)

\* bootstrap(AppModule, adapter) has rejected
C29_Witness ==
  /\ pc = "typeError"
  /\ ~constructed
  /\ exits = <<>>

\* ------------------------------------------------------------------------
\* An exception while the exports of a loaded file are inspected
\* ------------------------------------------------------------------------
HasRaisingExport(file) == Loads(file) /\ \E k \in 1..Len(file.exports) : file.exports[k].raises

\* the file with the export that throws, and every export after it, removed
Truncated(file) == SourceFile(file.name, file.throws, ReachedExports(file.exports))

RECURSIVE TruncatedFiles(_)
TruncatedFiles(files) ==
  IF files = <<>> THEN <<>>
  ELSE << Truncated(Head(files)) >> \o TruncatedFiles(Tail(files))

\* the classes of the exports of a file after its first export that throws
SkippedClasses(file) ==
  { file.exports[k].cls : k \in { k \in 1..Len(file.exports) :
        \E r \in 1..(k - 1) : file.exports[r].raises } }

\* C30: an exception raised while the exports of a successfully loaded file
\* are inspected is swallowed: the scan returns normally, goes on with the
\* next file, skips the rest of that file's exports and keeps what that file
\* had contributed before the exception. The result is that of scanning the
\* same files with the throwing export and everything after it removed.
C30_IntrospectionFailureSwallowed ==
  fn = "discoverComponents" =>
    LET rest == Scan(TruncatedFiles(input))
        found == Range(output.value.providers) \cup Range(output.value.controllers)
    IN  /\ ~output.threw
        /\ output.value.providers = rest.providers
        /\ output.value.controllers = rest.controllers
        /\ \A i \in 1..Len(input) : HasRaisingExport(input[i]) =>
              /\ SkippedClasses(input[i]) \cap found = {}
              /\ \A e \in Range(ReachedExports(input[i].exports)) :
                    (e.classLike /\ (Truthy(e.path) \/ e.injectable)) => e.cls \in found
        /\ (Len(input) = 2 /\ input[1].name = "partial.ts"
            /\ input[2].name = "controller.ts") =>
              /\ output.value.providers = << "EarlyService" >>
              /\ output.value.controllers = << "UserController" >>

\* the file whose second export throws comes first: its first export and the
\* file after it are in the result, its third export is not
C30_Witness ==
  /\ fn = "discoverComponents"
  /\ Len(input) = 2
  /\ input[1].name = "partial.ts"
  /\ input[2].name = "controller.ts"
  /\ output.value.providers = << "EarlyService" >>
  /\ output.value.controllers = << "UserController" >>

====
